---- MODULE Spec2Model ----
(***************************************************************************)
(* Telemetry4SoC: the single-producer/single-consumer ring buffer          *)
(* (core/ring_buffer.c), the background agent that drains it               *)
(* (agent/telemetry_agent.c) and the eventfd wakeup primitive              *)
(* (os/linux/osal_wakeup_linux.c).                                         *)
(*                                                                         *)
(* Threads are interleaved at the granularity of one atomic load, store or *)
(* fetch-add, and one half of a slot copy (a struct assignment is not      *)
(* atomic: it is modelled as two steps, so a torn record is observable).   *)
(***************************************************************************)
EXTENDS Integers, Sequences, FiniteSets, TLC

\* A local of a function holds 0 (a record: ZeroEvent) outside its lifetime.
VARIABLES
    \* ring_buffer_s
    capacity, allocation, buffer, head, tail, dropped,
    \* the producer thread: position and the locals of ring_buffer_push
    p_pc, p_head, p_next, p_event, p_ret,
    \* the consumer thread: position and the locals of ring_buffer_pop /
    \* drain_ring_send_event / consumer_thread_main
    c_pc, c_head, c_tail, c_out, c_ret, drained, pass,
    \* struct telemetry_agent, the eventfd counter, the caller of stop
    stop_requested, sent_count, wakeup_count, event_fd, s_pc,
    thread_joined, wakeup_alive, agent_alive, shutdown_calls,
    \* a second thread calling ring_buffer_push: position and locals
    q_pc, q_head, q_next, q_event, q_ret,
    \* a thread calling ring_buffer_count: position, locals, result, and the
    \* counts the ring has had since the call began (history)
    o_pc, o_head, o_ret, o_seen,
    \* the result of the last ring_buffer_dropped call, and the operands of
    \* its argument check for which a ring_buffer_push call has returned
    \* false (history)
    o_dropped, invalid_pushes,
    \* telemetry_encode_header_v1 / telemetry_decode_header_v1: position, the
    \* arguments, the output buffer, the results
    k_pc, k_header, k_capacity, k_null, k_buffer, k_size, k_decoded, k_rc,
    \* the caller of telemetry_agent_start: position, the arguments that are
    \* NULL, the locals rc and the return value, *out_agent, the resources
    \* created so far, whether the process has been terminated by a fault
    a_pc, a_nulls, a_rc, a_ret, out_agent_written, workers, thread_alive,
    wakeups_created, crashed,
    \* a second call of telemetry_agent_stop on the same handle: position,
    \* the stores it has made into freed memory; calls of stop with NULL
    s2_pc, freed_stores, null_stops,
    \* the returns of the worker from osal_wakeup_wait (history)
    wait_returns,
    \* the caller of ring_buffer_init: position, the arguments (which pointer
    \* is NULL, capacity), the return value, *out_rb
    i_pc, i_nulls, i_capacity, i_ret, out_rb_written,
    \* the caller of telemetry_event_make: position, the arguments, the
    \* caller's event, the return value
    m_pc, m_args, m_event, m_ret,
    \* history (not program state)
    backlog0, attempts, notifies, pushed, rejected, popped, pop_fifo, sent,
    sent_fifo, send_fails, stop_signals, late_push, cap_backlog,
    sends_after_shutdown

ringVars  == <<capacity, allocation, buffer, head, tail, dropped>>
prodVars  == <<p_pc, p_head, p_next, p_event, p_ret>>
consVars  == <<c_pc, c_head, c_tail, c_out, c_ret, drained, pass>>
agentVars == <<stop_requested, sent_count, wakeup_count, event_fd, s_pc,
               thread_joined, wakeup_alive, agent_alive, shutdown_calls>>
histVars  == <<backlog0, attempts, notifies, pushed, rejected, popped,
               pop_fifo, sent, sent_fifo, send_fails, stop_signals, late_push,
               cap_backlog, sends_after_shutdown>>
prod2Vars == <<q_pc, q_head, q_next, q_event, q_ret>>
obsVars   == <<o_pc, o_head, o_ret, o_seen, o_dropped, invalid_pushes>>
codecVars == <<k_pc, k_header, k_capacity, k_null, k_buffer, k_size,
               k_decoded, k_rc>>
lifeVars  == <<a_pc, a_nulls, a_rc, a_ret, out_agent_written, workers,
               thread_alive, wakeups_created, crashed, s2_pc, freed_stores,
               null_stops>>
wakeVars  == <<wait_returns>>
initVars  == <<i_pc, i_nulls, i_capacity, i_ret, out_rb_written>>
makeVars  == <<m_pc, m_args, m_event, m_ret>>
vars == <<ringVars, prodVars, consVars, agentVars, histVars, prod2Vars,
          obsVars, codecVars, lifeVars, wakeVars, initVars, makeVars>>

----------------------------------------------------------------------------
(* Bounds of the model *)

\* ring capacities tried by the ring-buffer specification: 1..MaxCapacity
MaxCapacity == 4
\* number of ring_buffer_push calls made by the producer of the ring-buffer
\* specification
MaxPush == 8
\* number of ring_buffer_push calls made while an agent is running
MaxAgentPush == 1
\* number of telemetry_agent_notify calls
MaxNotify == 1
\* capacity of the ring the agent drains: more than two drain passes
AgentCapacity == 101

\* number of send_event calls that return false
MaxSendFail == 1
\* the small ring of the agent whose producer notifies repeatedly, the
\* number of its pushes and of its notifies
WakeCapacity == 2
MaxWakePush == 2
MaxWakeNotify == 2
\* two threads pushing: ring capacities 1..MaxTwoCapacity, number of
\* ring_buffer_push calls of both threads together
MaxTwoCapacity == 2
MaxTwoPush == 3
\* number of ring_buffer_push calls made while a third thread calls
\* ring_buffer_count
MaxCountPush == 3

\* a ring that is used and then freed: ring capacities 1..MaxDropCapacity,
\* number of ring_buffer_push calls with valid arguments
MaxDropCapacity == 2
MaxDropPush == 3

\* size_t is modelled with three bits: the largest value it holds
SIZE_MAX == 7

(* Program constants *)

TELEMETRY_AGENT_MAX_DRAIN_PER_WAKEUP == 50

\* the example program: ring_buffer_init(&rb, 1024), ten events pushed
ExampleCapacity == 1024
MAXIMUM_NUM_OF_EVENTS == 10

\* core/telemetry_protocol.h, telemetry_protocol.c
TELEMETRY_PROTOCOL_VERSION_V1 == 1
TELEMETRY_HEADER_LEN == 32
HEADER_V1_SIZE == 32
OFFSET_MAGIC_VALUE == 0
OFFSET_PROTOCOL_VERSION == 4
OFFSET_HEADER_LENGTH == 5
OFFSET_MESSAGE_TYPE == 6
OFFSET_SEQUENCE_NUMBER == 8
OFFSET_TIMESTAMP == 12
OFFSET_PAYLOAD_LENGTH == 20
OFFSET_CRC32 == 24
OFFSET_RESERVED == 28
TELEMETRY_EVENT_PAYLOAD_MAX == 128
TELEM_RC_OK == 0
TELEM_RC_ERR_PARM == 0 - 1
TELEM_RC_ERR_TRUNC == 0 - 3
TELEM_RC_ERR_MAGIC == 0 - 4
TELEM_RC_ERR_VERSION == 0 - 5
TELEM_RC_ERR_HEADER_LEN == 0 - 6
TELEM_RC_ERR_RANGE == 0 - 7

----------------------------------------------------------------------------
(* telemetry_event_t *)

\* the n-th event handed to ring_buffer_push: distinct increasing ids, as in
\* the tests; every field varies with n, so that a slot reused after a
\* wrap-around differs from its previous content
NewEvent(n) ==
    [event_id     |-> n,
     level        |-> n % 4,
     reserved     |-> n % 3,
     payload_size |-> 1 + (n % 2),
     timestamp    |-> 1000 + n,
     payload      |-> [i \in 1..(1 + (n % 2)) |-> (n + i) % 256]]

\* a slot as calloc leaves it
ZeroEvent ==
    [event_id |-> 0, level |-> 0, reserved |-> 0, payload_size |-> 0,
     timestamp |-> 0, payload |-> << >>]

\* a struct assignment dst = src, in two halves
CopyFirstHalf(dst, src) ==
    [dst EXCEPT !.event_id = src.event_id, !.level = src.level,
                !.reserved = src.reserved, !.payload_size = src.payload_size]

\* faulty variant: the payload bytes are not copied
CopySecondHalfNoPayload(dst, src) ==
    [dst EXCEPT !.timestamp = src.timestamp]

CopySecondHalf(dst, src) ==
    [dst EXCEPT !.timestamp = src.timestamp, !.payload = src.payload]

----------------------------------------------------------------------------
(* core/ring_buffer.c *)

\* faulty variant: the index wraps one slot early, at capacity
next_index_capacity(alloc, index) ==
    IF index + 1 >= alloc - 1 THEN 0 ELSE index + 1

\* index++; if(index >= rb->allocation) index = 0
next_index(alloc, index) ==
    IF index + 1 >= alloc THEN 0 ELSE index + 1

\* faulty variant: wraps with capacity instead of allocation
ring_buffer_count_capacity(h, t, alloc) ==
    IF h >= t THEN h - t ELSE ((alloc - 1) - t) + h

\* faulty variant: the wrapped difference is taken whether or not head is
\* behind tail
ring_buffer_count_unbranched(h, t, alloc) ==
    (alloc - t) + h

\* if(head >= tail) return head - tail; return (allocation - tail) + head
ring_buffer_count(h, t, alloc) ==
    IF h >= t THEN h - t ELSE (alloc - t) + h

\* the counts seen by a ring_buffer_count call in progress, after a step that
\* leaves the indices at h and t
Observed(h, t) ==
    IF o_pc = "idle" THEN o_seen
    ELSE o_seen \cup {ring_buffer_count(h, t, allocation)}

\* faulty variant: the successor of head is taken without the wrap-around
PushIsFullNoWrap(alloc, h, t) ==
    h + 1 = t

\* the fullness test of ring_buffer_push: next_index(rb, head) == tail
PushIsFull(alloc, h, t) ==
    next_index(alloc, h) = t

\* faulty variant: the test for full is used as the test for empty
PopIsEmptyOffByOne(h, t) ==
    h = t + 1

\* the emptiness test of ring_buffer_pop
PopIsEmpty(h, t) ==
    h = t

\* ring_buffer_push, entry: argument checks pass, load head (relaxed)
PushLoadHead(maxPush) ==
    /\ p_pc = "idle"
    /\ attempts - backlog0 < maxPush
    /\ p_event' = NewEvent(attempts + 1)
    /\ attempts' = attempts + 1
    /\ p_head' = head
    /\ p_pc' = "push_load_tail"
    /\ late_push' = (late_push \/ s_pc # "idle")
    /\ UNCHANGED <<prod2Vars, obsVars, codecVars, lifeVars, wakeVars,
                   initVars, makeVars,
                   ringVars, p_next, p_ret, consVars, agentVars, backlog0,
                   notifies, pushed, rejected, popped, pop_fifo, sent,
                   sent_fifo, send_fails, stop_signals, cap_backlog,
                   sends_after_shutdown>>

\* faulty variant: a push that finds the ring full tries again
PushAfterTestRetry(full) ==
    IF full THEN "push_load_tail" ELSE "push_copy"

\* ring_buffer_push: if(next == tail) count the drop and return false; else
\* store the record
PushAfterTest(full) ==
    IF full THEN "push_drop" ELSE "push_copy"

\* load tail (acquire), compute next, test for full (the loaded tail is not
\* used after the test)
PushLoadTail ==
    /\ p_pc = "push_load_tail"
    /\ p_next' = next_index(allocation, p_head)
    /\ p_pc' = PushAfterTest(PushIsFull(allocation, p_head, tail))
    /\ UNCHANGED <<prod2Vars, obsVars, codecVars, lifeVars, wakeVars,
                   initVars, makeVars,
                   ringVars, p_head, p_event, p_ret, consVars, agentVars,
                   histVars>>

\* faulty variant: the rejected push is not counted
PushDropUncounted ==
    /\ p_pc = "push_drop"
    /\ p_ret' = FALSE
    /\ p_pc' = "idle"
    /\ p_head' = 0 /\ p_next' = 0 /\ p_event' = ZeroEvent
    /\ rejected' = rejected \cup {p_event.event_id}
    /\ UNCHANGED <<prod2Vars, obsVars, codecVars, lifeVars, wakeVars,
                   initVars, makeVars,
                   ringVars, consVars, agentVars, backlog0, attempts,
                   notifies, pushed, popped, pop_fifo, sent, sent_fifo,
                   send_fails, stop_signals, late_push, cap_backlog,
                   sends_after_shutdown>>

\* full: count the drop, return false
PushDrop ==
    /\ p_pc = "push_drop"
    /\ dropped' = dropped + 1
    /\ p_ret' = FALSE
    /\ p_pc' = "idle"
    /\ p_head' = 0 /\ p_next' = 0 /\ p_event' = ZeroEvent
    /\ rejected' = rejected \cup {p_event.event_id}
    /\ UNCHANGED <<prod2Vars, obsVars, codecVars, lifeVars, wakeVars,
                   initVars, makeVars,
                   capacity, allocation, buffer, head, tail, consVars,
                   agentVars, backlog0, attempts, notifies, pushed, popped,
                   pop_fifo, sent, sent_fifo, send_fails, stop_signals,
                   late_push, cap_backlog, sends_after_shutdown>>

\* rb->buffer[head] = *event, first half
PushCopyBegin ==
    /\ p_pc = "push_copy"
    /\ buffer' = [buffer EXCEPT ![p_head] = CopyFirstHalf(@, p_event)]
    /\ p_pc' = "push_copy_end"
    /\ UNCHANGED <<prod2Vars, obsVars, codecVars, lifeVars, wakeVars,
                   initVars, makeVars,
                   capacity, allocation, head, tail, dropped, p_head, p_next,
                   p_event, p_ret, consVars, agentVars, histVars>>

\* rb->buffer[head] = *event, second half
PushCopyEnd ==
    /\ p_pc = "push_copy_end"
    /\ buffer' = [buffer EXCEPT ![p_head] = CopySecondHalf(@, p_event)]
    /\ p_pc' = "push_store_head"
    /\ UNCHANGED <<prod2Vars, obsVars, codecVars, lifeVars, wakeVars,
                   initVars, makeVars,
                   capacity, allocation, head, tail, dropped, p_head, p_next,
                   p_event, p_ret, consVars, agentVars, histVars>>

\* publish the new head (release), return true
PushStoreHead ==
    /\ p_pc = "push_store_head"
    /\ head' = p_next
    /\ p_ret' = TRUE
    /\ p_pc' = "idle"
    /\ p_head' = 0 /\ p_next' = 0 /\ p_event' = ZeroEvent
    /\ pushed' = Append(pushed, p_event)
    /\ o_seen' = Observed(p_next, tail)
    /\ UNCHANGED <<prod2Vars, o_pc, o_head, o_ret, o_dropped,
                   invalid_pushes, codecVars, lifeVars,
                   wakeVars, initVars, makeVars,
                   capacity, allocation, buffer, tail, dropped, consVars,
                   agentVars, backlog0, attempts, notifies, rejected, popped,
                   pop_fifo, sent, sent_fifo, send_fails, stop_signals,
                   late_push, cap_backlog, sends_after_shutdown>>

\* ring_buffer_pop, entry: argument checks pass, load head (acquire)
PopLoadHead(callPc) ==
    /\ c_pc = callPc
    /\ c_head' = head
    /\ c_pc' = "pop_load_tail"
    /\ UNCHANGED <<prod2Vars, obsVars, codecVars, lifeVars, wakeVars,
                   initVars, makeVars,
                   ringVars, prodVars, c_tail, c_out, c_ret, drained, pass,
                   agentVars, histVars>>

\* load tail (relaxed), test for empty: return false, or go on to the copy
\* (the loaded head is not used after the test)
PopLoadTail(retPc) ==
    /\ c_pc = "pop_load_tail"
    /\ c_head' = 0
    /\ IF PopIsEmpty(c_head, tail)
       THEN /\ c_ret' = FALSE
            /\ c_tail' = 0
            /\ c_pc' = retPc
       ELSE /\ c_ret' = c_ret
            /\ c_tail' = tail
            /\ c_pc' = "pop_copy"
    /\ UNCHANGED <<prod2Vars, obsVars, codecVars, lifeVars, wakeVars,
                   initVars, makeVars,
                   ringVars, prodVars, c_out, drained, pass, agentVars,
                   histVars>>

\* *out = rb->buffer[tail], first half
PopCopyBegin ==
    /\ c_pc = "pop_copy"
    /\ c_out' = CopyFirstHalf(c_out, buffer[c_tail])
    /\ c_pc' = "pop_copy_end"
    /\ UNCHANGED <<prod2Vars, obsVars, codecVars, lifeVars, wakeVars,
                   initVars, makeVars,
                   ringVars, prodVars, c_head, c_tail, c_ret, drained, pass,
                   agentVars, histVars>>

\* *out = rb->buffer[tail], second half
PopCopyEnd ==
    /\ c_pc = "pop_copy_end"
    /\ c_out' = CopySecondHalf(c_out, buffer[c_tail])
    /\ c_pc' = "pop_store_tail"
    /\ UNCHANGED <<prod2Vars, obsVars, codecVars, lifeVars, wakeVars,
                   initVars, makeVars,
                   ringVars, prodVars, c_head, c_tail, c_ret, drained, pass,
                   agentVars, histVars>>

\* publish the new tail (release), return true
PopStoreTail(retPc) ==
    /\ c_pc = "pop_store_tail"
    /\ tail' = next_index(allocation, c_tail)
    /\ c_ret' = TRUE
    /\ c_tail' = 0
    /\ c_pc' = retPc
    /\ popped' = popped + 1
    /\ pop_fifo' = (pop_fifo /\ popped < Len(pushed)
                             /\ c_out = pushed[popped + 1])
    /\ o_seen' = Observed(head, next_index(allocation, c_tail))
    /\ UNCHANGED <<prod2Vars, o_pc, o_head, o_ret, o_dropped,
                   invalid_pushes, codecVars, lifeVars,
                   wakeVars, initVars, makeVars,
                   capacity, allocation, buffer, head, dropped, prodVars,
                   c_head, c_out, drained, pass, agentVars, backlog0, attempts,
                   notifies, pushed, rejected, sent, sent_fifo, send_fails,
                   stop_signals, late_push, cap_backlog, sends_after_shutdown>>

----------------------------------------------------------------------------
(* The ring buffer on its own: one producer thread calling                 *)
(* ring_buffer_push, one consumer thread calling ring_buffer_pop.          *)

\* ring_buffer_init(capacity): calloc'ed slots, head = tail = dropped = 0
RingInit(cap) ==
    /\ capacity = cap
    /\ allocation = cap + 1
    /\ buffer = [i \in 0..cap |-> ZeroEvent]
    /\ head = 0
    /\ tail = 0
    /\ dropped = 0

ThreadsInit(cpc) ==
    /\ p_pc = "idle" /\ p_head = 0 /\ p_next = 0
    /\ p_event = ZeroEvent /\ p_ret = TRUE
    /\ c_pc = cpc /\ c_head = 0 /\ c_tail = 0 /\ c_out = ZeroEvent
    /\ c_ret = FALSE /\ drained = 0 /\ pass = 1
    /\ notifies = 0 /\ rejected = {} /\ wait_returns = 0
    /\ popped = 0 /\ pop_fifo = TRUE /\ sent = 0 /\ sent_fifo = TRUE
    /\ send_fails = 0 /\ stop_signals = 0
    /\ late_push = FALSE /\ cap_backlog = FALSE /\ sends_after_shutdown = 0

NoAgent ==
    /\ stop_requested = FALSE /\ sent_count = 0 /\ wakeup_count = 0
    /\ event_fd = 0 /\ s_pc = "none" /\ thread_joined = FALSE
    /\ wakeup_alive = FALSE /\ agent_alive = FALSE /\ shutdown_calls = 0

\* no second thread calls ring_buffer_push
NoSecondProducer ==
    /\ q_pc = "none" /\ q_head = 0 /\ q_next = 0
    /\ q_event = ZeroEvent /\ q_ret = TRUE

\* no thread calls ring_buffer_count or ring_buffer_dropped, and no
\* ring_buffer_push call is made with an invalid argument
NoObserver ==
    /\ o_pc = "idle" /\ o_head = 0 /\ o_ret = 0 /\ o_seen = {0}
    /\ o_dropped = 0 /\ invalid_pushes = {}

\* telemetry_agent_start is not part of the run: the agent exists from the
\* start or there is none
NoLifecycle ==
    /\ a_pc = "none" /\ a_nulls = {} /\ a_rc = 0 /\ a_ret = FALSE
    /\ out_agent_written = FALSE /\ workers = 0 /\ thread_alive = FALSE
    /\ wakeups_created = 0 /\ crashed = FALSE
    /\ s2_pc = "none" /\ freed_stores = 0 /\ null_stops = 0

\* the ring exists from the start: ring_buffer_init is not part of the run
NoRingInit ==
    /\ i_pc = "none" /\ i_nulls = {} /\ i_capacity = 0 /\ i_ret = FALSE
    /\ out_rb_written = FALSE

\* telemetry_event_make is not part of the run
NoEventMake ==
    /\ m_pc = "none" /\ m_args = << >> /\ m_event = << >> /\ m_ret = FALSE

\* the header codec is not in use
NoCodec ==
    /\ k_pc = "none" /\ k_header = << >> /\ k_capacity = 0 /\ k_null = {}
    /\ k_buffer = << >> /\ k_size = 0 /\ k_decoded = << >> /\ k_rc = 0

InitRing ==
    /\ \E cap \in 1..MaxCapacity : RingInit(cap)
    /\ backlog0 = 0 /\ attempts = 0 /\ pushed = << >>
    /\ ThreadsInit("idle")
    /\ NoLifecycle /\ NoRingInit /\ NoEventMake
    /\ NoAgent
    /\ NoSecondProducer /\ NoObserver /\ NoCodec

NextRing ==
    \/ PushLoadHead(MaxPush)
    \/ PushLoadTail
    \/ PushDrop
    \/ PushCopyBegin
    \/ PushCopyEnd
    \/ PushStoreHead
    \/ PopLoadHead("idle")
    \/ PopLoadTail("idle")
    \/ PopCopyBegin
    \/ PopCopyEnd
    \/ PopStoreTail("idle")

SpecRing == InitRing /\ [][NextRing]_vars

----------------------------------------------------------------------------
(* Properties of the ring buffer, checked under SpecRing *)

Count == ring_buffer_count(head, tail, allocation)

\* the slots holding accepted, not yet consumed records
QueuedSlots == {(tail + k) % allocation : k \in 0..(Count - 1)}

\* the producer has chosen slot p_head and not yet published it
ProducerInSlot == p_pc \in {"push_copy", "push_copy_end", "push_store_head"}

\* the consumer is copying out of slot c_tail and has not yet released it
ConsumerInSlot == c_pc \in {"pop_copy", "pop_copy_end", "pop_store_tail"}

\* C1: with one producer and one consumer interleaved at single loads,
\* stores and half copies, the slot the producer writes is never a slot
\* holding an unconsumed record nor the slot the consumer is reading, and
\* the slot the consumer reads holds the completely written oldest
\* unconsumed record.
SlotExclusive ==
    /\ (ProducerInSlot /\ ConsumerInSlot) => p_head # c_tail
    /\ ProducerInSlot => p_head \notin QueuedSlots
    /\ ConsumerInSlot =>
          /\ c_tail \in QueuedSlots
          /\ popped < Len(pushed)
          /\ buffer[c_tail] = pushed[popped + 1]

\* both threads are in the middle of their copies, in different slots, with
\* the head wrapped around below the tail
SlotExclusiveWitness ==
    /\ p_pc = "push_copy_end"
    /\ c_pc = "pop_copy_end"
    /\ p_head < c_tail

\* C5: after every call the count is within 0..capacity and equals the
\* accepted pushes minus the successful pops, also with head wrapped below
\* tail.
CountIsPushesMinusPops ==
    /\ Count >= 0
    /\ Count <= capacity
    /\ Count = Len(pushed) - popped

\* a full buffer whose head has wrapped around below its tail
CountWrappedWitness ==
    /\ head < tail
    /\ Count = capacity
    /\ popped >= 2

\* C29: in every state of an initialised ring, allocation is capacity + 1,
\* head and tail are in 0..allocation-1, the number of queued records
\* (accepted pushes minus successful pops) is (head - tail) mod allocation,
\* the ring holds capacity records exactly when (head + 1) mod allocation is
\* tail, and none exactly when head = tail.
RingIndexInvariant ==
    /\ allocation = capacity + 1
    /\ head \in 0..(allocation - 1)
    /\ tail \in 0..(allocation - 1)
    /\ Len(pushed) - popped = (head + allocation - tail) % allocation
    /\ (Len(pushed) - popped = capacity) <=> ((head + 1) % allocation = tail)
    /\ (Len(pushed) - popped = 0) <=> (head = tail)

\* a ring of at least two records that is full with its head in the last
\* slot but one and its tail in the last slot
RingFullWrappedWitness ==
    /\ capacity >= 2
    /\ tail = allocation - 1
    /\ head = allocation - 2
    /\ Len(pushed) - popped = capacity

\* C6: a push that finds the buffer full when it loads the tail is rejected;
\* the rejecting step returns false, adds exactly one to dropped and leaves
\* head, tail, the slots and the accepted records as they are; a rejected
\* record is never stored in a slot nor handed out by pop.
PushOnFullRejected ==
    /\ [][ /\ (p_pc = "push_load_tail" /\ p_pc' # "push_load_tail"
                  /\ Count = capacity)
              => p_pc' = "push_drop"
           /\ (p_pc = "push_drop" /\ p_pc' # "push_drop")
              => /\ p_ret' = FALSE
                 /\ dropped' = dropped + 1
                 /\ head' = head /\ tail' = tail
                 /\ buffer' = buffer /\ pushed' = pushed
         ]_vars
    /\ [](/\ \A i \in 0..capacity : buffer[i].event_id \notin rejected
          /\ c_out.event_id \notin rejected)

\* a push has just been rejected by a full, wrapped buffer
PushOnFullWitness ==
    /\ p_pc = "idle"
    /\ p_ret = FALSE
    /\ dropped = 1
    /\ Count = capacity
    /\ head < tail

\* C7: the k-th successful pop returns a record equal in every field to the
\* k-th accepted push, also across the wrap-around of the indices.
PopsAreFifo ==
    /\ pop_fifo
    /\ popped <= Len(pushed)

\* capacity 4: pushes 1,2,3, a pop, pushes 4,5, push 6 rejected, and all
\* five records popped
PopsAreFifoWitness ==
    /\ capacity = 4
    /\ rejected = {6}
    /\ popped = 5
    /\ head < 3

\* C8: a pop that loaded a head equal to the tail returns false and changes
\* neither head, tail, dropped, the slots nor the count; any other pop goes
\* on to copy, and its last step returns true and consumes exactly one
\* record.
PopEmptyOrConsumesOne ==
    [][ /\ (c_pc # "pop_load_tail" /\ c_pc' = "pop_load_tail")
           => c_head' = head
        /\ (c_pc = "pop_load_tail" /\ c_pc' # "pop_load_tail")
           => IF c_head = tail
              THEN /\ c_ret' = FALSE
                   /\ c_pc' = "idle"
                   /\ head' = head /\ tail' = tail /\ dropped' = dropped
                   /\ buffer' = buffer /\ popped' = popped
              ELSE c_pc' = "pop_copy"
        /\ (c_pc = "pop_store_tail" /\ c_pc' # "pop_store_tail")
           => /\ c_ret' = TRUE
              /\ tail' = next_index(allocation, tail)
              /\ popped' = popped + 1
              /\ ring_buffer_count(head', tail', allocation) = Count - 1
              /\ head' = head /\ dropped' = dropped /\ buffer' = buffer
      ]_vars

\* a pop has returned false on a buffer emptied by earlier pops
PopEmptyWitness ==
    /\ c_pc = "idle"
    /\ c_ret = FALSE
    /\ popped >= 2
    /\ head = tail

----------------------------------------------------------------------------
(* Two threads calling ring_buffer_push on the same ring, and one consumer. *)
(* The second thread runs the same code with its own locals q_*.            *)

\* the history variables a push does not touch
pushUntouched ==
    <<backlog0, notifies, popped, pop_fifo, sent, sent_fifo, send_fails,
      stop_signals, late_push, cap_backlog, sends_after_shutdown>>

\* ring_buffer_push, entry: argument checks pass, load head (relaxed)
Push2LoadHead(maxPush) ==
    /\ q_pc = "idle"
    /\ attempts - backlog0 < maxPush
    /\ q_event' = NewEvent(attempts + 1)
    /\ attempts' = attempts + 1
    /\ q_head' = head
    /\ q_pc' = "push_load_tail"
    /\ UNCHANGED <<ringVars, prodVars, consVars, agentVars, obsVars,
                   codecVars, lifeVars, wakeVars, initVars, makeVars,
                   q_next, q_ret, pushed, rejected, pushUntouched>>

\* load tail (acquire), compute next, test for full
Push2LoadTail ==
    /\ q_pc = "push_load_tail"
    /\ q_next' = next_index(allocation, q_head)
    /\ q_pc' = PushAfterTest(PushIsFull(allocation, q_head, tail))
    /\ UNCHANGED <<ringVars, prodVars, consVars, agentVars, obsVars,
                   codecVars, lifeVars, wakeVars, initVars, makeVars,
                   q_head, q_event, q_ret, histVars>>

\* full: count the drop, return false
Push2Drop ==
    /\ q_pc = "push_drop"
    /\ dropped' = dropped + 1
    /\ q_ret' = FALSE
    /\ q_pc' = "idle"
    /\ q_head' = 0 /\ q_next' = 0 /\ q_event' = ZeroEvent
    /\ rejected' = rejected \cup {q_event.event_id}
    /\ UNCHANGED <<capacity, allocation, buffer, head, tail, prodVars,
                   consVars, agentVars, obsVars, codecVars, lifeVars,
                   wakeVars, initVars, makeVars,
                   attempts, pushed,
                   pushUntouched>>

\* rb->buffer[head] = *event, first half
Push2CopyBegin ==
    /\ q_pc = "push_copy"
    /\ buffer' = [buffer EXCEPT ![q_head] = CopyFirstHalf(@, q_event)]
    /\ q_pc' = "push_copy_end"
    /\ UNCHANGED <<capacity, allocation, head, tail, dropped, prodVars,
                   consVars, agentVars, obsVars, codecVars, lifeVars,
                   wakeVars, initVars, makeVars,
                   q_head, q_next,
                   q_event, q_ret, histVars>>

\* rb->buffer[head] = *event, second half
Push2CopyEnd ==
    /\ q_pc = "push_copy_end"
    /\ buffer' = [buffer EXCEPT ![q_head] = CopySecondHalf(@, q_event)]
    /\ q_pc' = "push_store_head"
    /\ UNCHANGED <<capacity, allocation, head, tail, dropped, prodVars,
                   consVars, agentVars, obsVars, codecVars, lifeVars,
                   wakeVars, initVars, makeVars,
                   q_head, q_next,
                   q_event, q_ret, histVars>>

\* publish the new head (release), return true
Push2StoreHead ==
    /\ q_pc = "push_store_head"
    /\ head' = q_next
    /\ q_ret' = TRUE
    /\ q_pc' = "idle"
    /\ q_head' = 0 /\ q_next' = 0 /\ q_event' = ZeroEvent
    /\ pushed' = Append(pushed, q_event)
    /\ UNCHANGED <<capacity, allocation, buffer, tail, dropped, prodVars,
                   consVars, agentVars, obsVars, codecVars, lifeVars,
                   wakeVars, initVars, makeVars,
                   attempts,
                   rejected, pushUntouched>>

InitTwoProducers ==
    /\ \E cap \in 1..MaxTwoCapacity : RingInit(cap)
    /\ backlog0 = 0 /\ attempts = 0 /\ pushed = << >>
    /\ ThreadsInit("idle")
    /\ NoLifecycle /\ NoRingInit /\ NoEventMake
    /\ NoAgent
    /\ q_pc = "idle" /\ q_head = 0 /\ q_next = 0
    /\ q_event = ZeroEvent /\ q_ret = TRUE
    /\ NoObserver /\ NoCodec

NextTwoProducers ==
    \/ PushLoadHead(MaxTwoPush)
    \/ PushLoadTail
    \/ PushDrop
    \/ PushCopyBegin
    \/ PushCopyEnd
    \/ PushStoreHead
    \/ Push2LoadHead(MaxTwoPush)
    \/ Push2LoadTail
    \/ Push2Drop
    \/ Push2CopyBegin
    \/ Push2CopyEnd
    \/ Push2StoreHead
    \/ PopLoadHead("idle")
    \/ PopLoadTail("idle")
    \/ PopCopyBegin
    \/ PopCopyEnd
    \/ PopStoreTail("idle")

SpecTwoProducers == InitTwoProducers /\ [][NextTwoProducers]_vars

\* the second thread has chosen slot q_head and not yet published it
Producer2InSlot == q_pc \in {"push_copy", "push_copy_end", "push_store_head"}

\* C16 (as stated): with two threads pushing concurrently, no two pushes
\* write the same slot, every accepted record stays in the ring until it is
\* popped (the accepted pushes are the pops plus the count), and the count
\* never exceeds the capacity.
TwoProducersSafe ==
    /\ (ProducerInSlot /\ Producer2InSlot) => p_head # q_head
    /\ Count = Len(pushed) - popped
    /\ Count <= capacity

----------------------------------------------------------------------------
(* ring_buffer_count called by a third thread while the producer pushes and *)
(* the consumer pops.                                                       *)

\* ring_buffer_count, entry: argument checks pass, load head (acquire);
\* from here on the counts the ring goes through are recorded
CountLoadHead ==
    /\ o_pc = "idle"
    /\ o_head' = head
    /\ o_pc' = "count_load_tail"
    /\ o_seen' = {ring_buffer_count(head, tail, allocation)}
    /\ UNCHANGED <<ringVars, prodVars, consVars, agentVars, prod2Vars,
                   codecVars, lifeVars, wakeVars, initVars, makeVars, o_ret,
                   o_dropped, invalid_pushes,
                   histVars>>

\* load tail (acquire), return the difference of the two loaded indices
CountLoadTail ==
    /\ o_pc = "count_load_tail"
    /\ o_ret' = ring_buffer_count(o_head, tail, allocation)
    /\ o_head' = 0
    /\ o_pc' = "idle"
    /\ UNCHANGED <<ringVars, prodVars, consVars, agentVars, prod2Vars,
                   codecVars, lifeVars, wakeVars, initVars, makeVars, o_seen,
                   o_dropped, invalid_pushes,
                   histVars>>

\* faulty variant: reading the counter resets it
DroppedLoadResetting ==
    /\ o_pc = "idle"
    /\ o_dropped' = dropped
    /\ dropped' = 0
    /\ UNCHANGED <<capacity, allocation, buffer, head, tail, prodVars,
                   consVars, agentVars, prod2Vars, codecVars, lifeVars,
                   wakeVars, initVars, makeVars, o_pc, o_head, o_ret, o_seen,
                   invalid_pushes, histVars>>

\* ring_buffer_dropped: argument check passes, load dropped (relaxed) and
\* return it
DroppedLoad ==
    /\ o_pc = "idle"
    /\ o_dropped' = dropped
    /\ UNCHANGED <<ringVars, prodVars, consVars, agentVars, prod2Vars,
                   codecVars, lifeVars, wakeVars, initVars, makeVars, o_pc,
                   o_head, o_ret, o_seen, invalid_pushes, histVars>>

NextCount ==
    \/ PushLoadHead(MaxCountPush)
    \/ PushLoadTail
    \/ PushDrop
    \/ PushCopyBegin
    \/ PushCopyEnd
    \/ PushStoreHead
    \/ PopLoadHead("idle")
    \/ PopLoadTail("idle")
    \/ PopCopyBegin
    \/ PopCopyEnd
    \/ PopStoreTail("idle")
    \/ CountLoadHead
    \/ CountLoadTail
    \/ DroppedLoad

SpecCount == InitRing /\ [][NextCount]_vars

\* C17 (as stated): the value a ring_buffer_count call returns is the number
\* of queued records at some instant between the start and the end of the
\* call.
CountIsSnapshot ==
    o_pc = "idle" => o_ret \in o_seen

\* a step of the thread in ring_buffer_push, in ring_buffer_pop, and in
\* ring_buffer_count or ring_buffer_dropped
PushCallStep == prodVars' # prodVars
PopCallStep == consVars' # consVars
ReaderCallStep == <<o_pc, o_head, o_ret, o_dropped>>' #
                  <<o_pc, o_head, o_ret, o_dropped>>

\* C36: a step of ring_buffer_push leaves tail alone, and changes head only
\* as the step that returns true, to (head + 1) modulo allocation, which
\* every push that returns true does; a step of ring_buffer_pop leaves head
\* and dropped alone, and changes tail only as the step that returns true,
\* to (tail + 1) modulo allocation, which every pop that returns true does;
\* a step of ring_buffer_count or ring_buffer_dropped leaves every field of
\* the ring alone.
IndexOwnershipFrame ==
    [][/\ PushCallStep =>
             /\ tail' = tail
             /\ (p_pc' = "idle" /\ p_ret')
                   => head' = (head + 1) % allocation
             /\ ~(p_pc' = "idle" /\ p_ret') => head' = head
       /\ PopCallStep =>
             /\ head' = head
             /\ dropped' = dropped
             /\ (c_pc' = "idle" /\ c_pc # "pop_load_tail")
                   => (c_ret' /\ tail' = (tail + 1) % allocation)
             /\ ~(c_pc' = "idle" /\ c_pc # "pop_load_tail") => tail' = tail
       /\ ReaderCallStep => UNCHANGED ringVars
      ]_vars

\* ring_buffer_dropped and ring_buffer_count have returned 1 each, after a
\* rejected push, a pop and an accepted push that wrapped head
IndexFrameWitness ==
    /\ o_pc = "idle"
    /\ o_dropped = 1
    /\ dropped = 1
    /\ o_ret = 1
    /\ popped = 1
    /\ head < tail

\* C38: whatever the producer and the consumer do between the two loads of
\* a ring_buffer_count call, the value it returns is between 0 and the
\* capacity.
CountWithinCapacity ==
    /\ 0 <= o_ret
    /\ o_ret <= capacity

\* a call has returned a count that the ring did not hold at any moment of
\* the call
CountTornWitness ==
    /\ o_pc = "idle"
    /\ o_ret \notin o_seen
    /\ o_ret = capacity

----------------------------------------------------------------------------
(* A ring that is used by a producer, a consumer and a reader of the drop  *)
(* counter, with pushes whose arguments are invalid among the others, and  *)
(* that is freed once the threads are between calls.  A freed ring has     *)
(* buffer == NULL, written << >> here.                                     *)

\* ring_buffer_push / ring_buffer_pop: rb == NULL || rb->buffer == NULL ||
\* event == NULL; nulls is the set of the pointer arguments that are NULL,
\* buf the buffer of the ring behind a non-null handle
PushArgumentsValid(nulls, buf) ==
    ~("rb" \in nulls \/ buf = << >> \/ "event" \in nulls)

\* the first operand of the argument check that is true
PushRejectedOperand(nulls, buf) ==
    IF "rb" \in nulls THEN "rb"
    ELSE IF buf = << >> THEN "buffer"
    ELSE "event"

\* faulty variant: a push with an invalid argument is counted as a drop
PushInvalidCounted ==
    /\ p_pc = "idle"
    /\ \E nulls \in SUBSET {"rb", "event"} :
          /\ ~PushArgumentsValid(nulls, buffer)
          /\ PushRejectedOperand(nulls, buffer) \notin invalid_pushes
          /\ invalid_pushes' =
                invalid_pushes \cup {PushRejectedOperand(nulls, buffer)}
    /\ p_ret' = FALSE
    /\ dropped' = dropped + 1
    /\ UNCHANGED <<capacity, allocation, buffer, head, tail, p_pc, p_head,
                   p_next, p_event, consVars, agentVars, prod2Vars,
                   codecVars, lifeVars, wakeVars, initVars, makeVars, o_pc,
                   o_head, o_ret, o_seen, o_dropped, histVars>>

\* ring_buffer_push with an invalid argument: return false at once (the
\* model makes one such call for each operand of the check)
PushInvalid ==
    /\ p_pc = "idle"
    /\ \E nulls \in SUBSET {"rb", "event"} :
          /\ ~PushArgumentsValid(nulls, buffer)
          /\ PushRejectedOperand(nulls, buffer) \notin invalid_pushes
          /\ invalid_pushes' =
                invalid_pushes \cup {PushRejectedOperand(nulls, buffer)}
    /\ p_ret' = FALSE
    /\ UNCHANGED <<ringVars, p_pc, p_head, p_next, p_event, consVars,
                   agentVars, prod2Vars, codecVars, lifeVars, wakeVars,
                   initVars, makeVars, o_pc, o_head, o_ret, o_seen,
                   o_dropped, histVars>>

\* ring_buffer_free(rb), rb non-null, called while no thread is inside a
\* call: free the slots, buffer = NULL, capacity = allocation = 0,
\* head = tail = dropped = 0
ring_buffer_free ==
    /\ p_pc = "idle" /\ c_pc = "idle" /\ o_pc = "idle"
    /\ buffer # << >>
    /\ buffer' = << >>
    /\ capacity' = 0
    /\ allocation' = 0
    /\ head' = 0
    /\ tail' = 0
    /\ dropped' = 0
    /\ UNCHANGED <<prodVars, consVars, agentVars, prod2Vars, obsVars,
                   codecVars, lifeVars, wakeVars, initVars, makeVars,
                   histVars>>

InitDropped ==
    /\ \E cap \in 1..MaxDropCapacity : RingInit(cap)
    /\ backlog0 = 0 /\ attempts = 0 /\ pushed = << >>
    /\ ThreadsInit("idle")
    /\ NoLifecycle /\ NoRingInit /\ NoEventMake
    /\ NoAgent
    /\ NoSecondProducer /\ NoObserver /\ NoCodec

NextDropped ==
    \/ PushArgumentsValid({}, buffer) /\ PushLoadHead(MaxDropPush)
    \/ PushInvalid
    \/ PushLoadTail
    \/ PushDrop
    \/ PushCopyBegin
    \/ PushCopyEnd
    \/ PushStoreHead
    \/ PushArgumentsValid({}, buffer) /\ PopLoadHead("idle")
    \/ PopLoadTail("idle")
    \/ PopCopyBegin
    \/ PopCopyEnd
    \/ PopStoreTail("idle")
    \/ DroppedLoad
    \/ ring_buffer_free

SpecDropped == InitDropped /\ [][NextDropped]_vars

\* C37: while the ring is in use dropped never decreases and is the number
\* of ring_buffer_push calls rejected because the ring was full; a push
\* rejected for an invalid argument (null handle, freed buffer, null event)
\* returns false and leaves the ring, dropped included, as it is; a push
\* that returns true and every step of a pop leave dropped as it is; a push
\* that returns false for a full ring adds one.
DroppedCountsFullRejections ==
    [][/\ (buffer # << >> /\ buffer' # << >>) => dropped' >= dropped
       /\ buffer # << >> => dropped = Cardinality(rejected)
       /\ buffer' # << >> => dropped' = Cardinality(rejected')
       /\ invalid_pushes' # invalid_pushes
             => (p_pc' = "idle" /\ ~p_ret' /\ UNCHANGED ringVars)
       /\ (p_pc # "idle" /\ p_pc' = "idle")
             => dropped' = (IF p_ret' THEN dropped ELSE dropped + 1)
       /\ PopCallStep => dropped' = dropped
       /\ o_dropped' # o_dropped => o_dropped' = dropped
      ]_vars

\* two pushes have been rejected by a full ring and counted, two by the
\* argument check, one record has been popped
DroppedTwiceWitness ==
    /\ buffer # << >>
    /\ dropped = 2
    /\ o_dropped = 2
    /\ Cardinality(rejected) = 2
    /\ invalid_pushes = {"rb", "event"}
    /\ popped = 1
    /\ p_pc = "idle"

----------------------------------------------------------------------------
(* os/linux/osal_wakeup_linux.c: an eventfd counter.  write adds one;      *)
(* a blocking read waits until the counter is nonzero, returns it and      *)
(* resets it to zero.                                                      *)

osal_wakeup_notify(fd) ==
    fd + 1

\* faulty variant: an eventfd created with EFD_NONBLOCK, whose read fails
\* with EAGAIN on a zero counter, so that osal_wakeup_wait returns at once
osal_wakeup_wait_nonblocking(fd) ==
    TRUE

\* osal_wakeup_wait: the blocking read returns once the counter is nonzero
osal_wakeup_wait_ready(fd) ==
    fd > 0

\* faulty variant: an eventfd created with EFD_SEMAPHORE, whose read takes
\* one off the counter
osal_wakeup_wait_semaphore(fd) ==
    fd - 1

\* the counter after the read of osal_wakeup_wait
osal_wakeup_wait(fd) ==
    0

----------------------------------------------------------------------------
(* agent/telemetry_agent.c *)

\* telemetry_agent_notify: atomic_fetch_add(&wakeup_count, 1).  The caller
\* does not use an agent whose stop has been called.
NotifyCall(maxNotify) ==
    /\ p_pc = "idle"
    /\ s_pc = "idle"
    /\ notifies < maxNotify
    /\ wakeup_count' = wakeup_count + 1
    /\ notifies' = notifies + 1
    /\ p_pc' = "notify_write"
    /\ UNCHANGED <<prod2Vars, obsVars, codecVars, lifeVars, wakeVars,
                   initVars, makeVars,
                   ringVars, p_head, p_next, p_event, p_ret, consVars,
                   stop_requested, sent_count, event_fd, s_pc, thread_joined,
                   wakeup_alive, agent_alive, shutdown_calls, backlog0,
                   attempts, pushed, rejected, popped, pop_fifo, sent,
                   sent_fifo, send_fails, stop_signals, late_push, cap_backlog,
                   sends_after_shutdown>>

NotifyCount ==
    NotifyCall(MaxNotify)

\* telemetry_agent_notify: osal_wakeup_notify(agent->wakeup)
NotifyWrite ==
    /\ p_pc = "notify_write"
    /\ event_fd' = osal_wakeup_notify(event_fd)
    /\ p_pc' = "idle"
    /\ UNCHANGED <<prod2Vars, obsVars, codecVars, lifeVars, wakeVars,
                   initVars, makeVars,
                   ringVars, p_head, p_next, p_event, p_ret, consVars,
                   stop_requested, sent_count, wakeup_count, s_pc,
                   thread_joined, wakeup_alive, agent_alive, shutdown_calls,
                   histVars>>

\* consumer_thread_main: osal_wakeup_wait returns, drain_ring_send_event is
\* entered (its argument checks pass, drained = 0)
WorkerWait ==
    /\ c_pc = "wait"
    /\ osal_wakeup_wait_ready(event_fd)
    /\ event_fd' = osal_wakeup_wait(event_fd)
    /\ drained' = 0
    /\ pass' = 1
    /\ c_pc' = "drain_pop"
    /\ cap_backlog' = FALSE
    /\ wait_returns' = wait_returns + 1
    /\ UNCHANGED <<prod2Vars, obsVars, codecVars, lifeVars, initVars,
                   makeVars,
                   ringVars, prodVars, c_head, c_tail, c_out, c_ret,
                   stop_requested, sent_count, wakeup_count, s_pc,
                   thread_joined, wakeup_alive, agent_alive, shutdown_calls,
                   backlog0, attempts, notifies, pushed, rejected, popped,
                   pop_fifo, sent, sent_fifo, send_fails, stop_signals,
                   late_push, sends_after_shutdown>>

\* faulty variant: the test of the pop result is inverted
DrainAfterPopInverted(ok) ==
    IF ok THEN "drain_return" ELSE "send"

\* drain_ring_send_event: if(!ring_buffer_pop(...)) return NULL; else send
DrainAfterPop(ok) ==
    IF ok THEN "send" ELSE "drain_return"

\* drain_ring_send_event: transport->send_event(context, &event) is called
SendBegin ==
    /\ c_pc = "send"
    /\ sent' = sent + 1
    /\ sent_fifo' = (sent_fifo /\ sent < Len(pushed)
                               /\ c_out = pushed[sent + 1])
    /\ sends_after_shutdown' =
           sends_after_shutdown + (IF shutdown_calls > 0 THEN 1 ELSE 0)
    /\ c_pc' = "sending"
    /\ UNCHANGED <<prod2Vars, obsVars, codecVars, lifeVars, wakeVars,
                   initVars, makeVars,
                   ringVars, prodVars, c_head, c_tail, c_out, c_ret, drained,
                   pass, agentVars, backlog0, attempts, notifies, pushed,
                   rejected, popped, pop_fifo, send_fails, stop_signals,
                   late_push, cap_backlog>>

\* faulty variant: TELEMETRY_AGENT_MAX_DRAIN_PER_WAKEUP defined as 0, no limit
DrainLimitDisabled(n) ==
    FALSE

\* faulty variant: the drain limit is taken to be one record
DrainLimitReachedAtOne(n) ==
    n >= 1

\* the drain limit test of drain_ring_send_event, after drained++
DrainLimitReached(n) ==
    /\ TELEMETRY_AGENT_MAX_DRAIN_PER_WAKEUP # 0
    /\ n >= TELEMETRY_AGENT_MAX_DRAIN_PER_WAKEUP

\* faulty variant: a send is counted whatever send_event returned
SentCountAfterUnchecked(ok, n) ==
    n + 1

\* drain_ring_send_event: if(ok) atomic_fetch_add(&agent->sent_count, 1)
SentCountAfter(ok, n) ==
    IF ok THEN n + 1 ELSE n

\* drain_ring_send_event: send_event returns ok, one of results; count it if
\* ok; drained++; return when the limit is reached, else loop
SendReturnWith(results) ==
    /\ c_pc = "sending"
    /\ \E ok \in results :
          /\ sent_count' = SentCountAfter(ok, sent_count)
          /\ send_fails' = IF ok THEN send_fails ELSE send_fails + 1
    /\ drained' = drained + 1
    /\ IF DrainLimitReached(drained + 1)
       THEN /\ c_pc' = "drain_return"
            /\ cap_backlog' = (head # tail)
       ELSE /\ c_pc' = "drain_pop"
            /\ cap_backlog' = cap_backlog
    /\ UNCHANGED <<prod2Vars, obsVars, codecVars, lifeVars, wakeVars,
                   initVars, makeVars,
                   ringVars, prodVars, c_head, c_tail, c_out, c_ret, pass,
                   stop_requested, wakeup_count, event_fd, s_pc, thread_joined,
                   wakeup_alive, agent_alive, shutdown_calls, backlog0,
                   attempts, notifies, pushed, rejected, popped, pop_fifo,
                   sent, sent_fifo, stop_signals, late_push,
                   sends_after_shutdown>>

\* a sink whose send_event may fail, MaxSendFail times at most
SendReturn ==
    SendReturnWith(IF send_fails < MaxSendFail THEN {TRUE, FALSE} ELSE {TRUE})

\* faulty variant: a set stop flag ends the loop without the final drain
CheckStopNoFinalDrain ==
    /\ c_pc = "drain_return"
    /\ pass = 1
    /\ IF stop_requested
       THEN /\ pass' = 2
            /\ drained' = 0
            /\ c_pc' = "drain_return"
       ELSE /\ pass' = pass
            /\ drained' = drained
            /\ c_pc' = "wait"
    /\ UNCHANGED <<prod2Vars, obsVars, codecVars, lifeVars, wakeVars,
                   initVars, makeVars,
                   ringVars, prodVars, c_head, c_tail, c_out, c_ret, agentVars,
                   histVars>>

\* consumer_thread_main: after the first drain, load stop_requested
\* (acquire); set: the final drain; clear: back to osal_wakeup_wait
CheckStop ==
    /\ c_pc = "drain_return"
    /\ pass = 1
    /\ IF stop_requested
       THEN /\ pass' = 2
            /\ drained' = 0
            /\ c_pc' = "drain_pop"
       ELSE /\ pass' = pass
            /\ drained' = drained
            /\ c_pc' = "wait"
    /\ UNCHANGED <<prod2Vars, obsVars, codecVars, lifeVars, wakeVars,
                   initVars, makeVars,
                   ringVars, prodVars, c_head, c_tail, c_out, c_ret, agentVars,
                   histVars>>

\* consumer_thread_main: after the final drain, break and return
ThreadExit ==
    /\ c_pc = "drain_return"
    /\ pass = 2
    /\ c_pc' = "done"
    /\ UNCHANGED <<prod2Vars, obsVars, codecVars, lifeVars, wakeVars,
                   initVars, makeVars,
                   ringVars, prodVars, c_head, c_tail, c_out, c_ret, drained,
                   pass, agentVars, histVars>>

\* telemetry_agent_stop: atomic_store(&stop_requested, true).  The caller
\* stops an agent once, and not while a notify is in flight.
StopSetFlag ==
    /\ s_pc = "idle"
    /\ p_pc # "notify_write"
    /\ stop_requested' = TRUE
    /\ s_pc' = "stop_notify"
    /\ late_push' = (late_push \/ p_pc # "idle")
    /\ UNCHANGED <<prod2Vars, obsVars, codecVars, lifeVars, wakeVars,
                   initVars, makeVars,
                   ringVars, prodVars, consVars, sent_count, wakeup_count,
                   event_fd, thread_joined, wakeup_alive, agent_alive,
                   shutdown_calls, backlog0, attempts, notifies, pushed,
                   rejected, popped, pop_fifo, sent, sent_fifo, send_fails,
                   stop_signals, cap_backlog, sends_after_shutdown>>

\* faulty variant: stop signals through telemetry_agent_notify, which counts
StopNotifyCounted ==
    /\ s_pc = "stop_notify"
    /\ wakeup_count' = wakeup_count + 1
    /\ event_fd' = osal_wakeup_notify(event_fd)
    /\ stop_signals' = stop_signals + 1
    /\ s_pc' = "stop_join"
    /\ UNCHANGED <<prod2Vars, obsVars, codecVars, lifeVars, wakeVars,
                   initVars, makeVars,
                   ringVars, prodVars, consVars, stop_requested, sent_count,
                   thread_joined, wakeup_alive, agent_alive,
                   shutdown_calls, backlog0, attempts, notifies, pushed,
                   rejected, popped, pop_fifo, sent, sent_fifo, send_fails,
                   late_push, cap_backlog, sends_after_shutdown>>

\* faulty variant: stop does not signal the wakeup primitive
StopWithoutNotify ==
    /\ s_pc = "stop_notify"
    /\ s_pc' = "stop_join"
    /\ UNCHANGED <<prod2Vars, obsVars, codecVars, lifeVars, wakeVars,
                   initVars, makeVars,
                   ringVars, prodVars, consVars, stop_requested, sent_count,
                   wakeup_count, event_fd, thread_joined, wakeup_alive,
                   agent_alive, shutdown_calls, histVars>>

\* telemetry_agent_stop: osal_wakeup_notify(agent->wakeup)
StopNotify ==
    /\ s_pc = "stop_notify"
    /\ event_fd' = osal_wakeup_notify(event_fd)
    /\ stop_signals' = stop_signals + 1
    /\ s_pc' = "stop_join"
    /\ UNCHANGED <<prod2Vars, obsVars, codecVars, lifeVars, wakeVars,
                   initVars, makeVars,
                   ringVars, prodVars, consVars, stop_requested, sent_count,
                   wakeup_count, thread_joined, wakeup_alive, agent_alive,
                   shutdown_calls, backlog0, attempts, notifies, pushed,
                   rejected, popped, pop_fifo, sent, sent_fifo, send_fails,
                   late_push, cap_backlog, sends_after_shutdown>>

\* faulty variant: the join does not wait for the worker
ThreadHasExitedUnchecked(pc) ==
    TRUE

\* osal_thread_join returns once the worker has returned
ThreadHasExited(pc) ==
    pc = "done"

\* telemetry_agent_stop: osal_thread_join, osal_thread_destroy
StopJoin ==
    /\ s_pc = "stop_join"
    /\ ThreadHasExited(c_pc)
    /\ thread_joined' = TRUE
    /\ s_pc' = "stop_destroy_wakeup"
    /\ UNCHANGED <<prod2Vars, obsVars, codecVars, lifeVars, wakeVars,
                   initVars, makeVars,
                   ringVars, prodVars, consVars, stop_requested, sent_count,
                   wakeup_count, event_fd, wakeup_alive, agent_alive,
                   shutdown_calls, histVars>>

\* telemetry_agent_stop: osal_wakeup_destroy(agent->wakeup)
StopDestroyWakeup ==
    /\ s_pc = "stop_destroy_wakeup"
    /\ wakeup_alive' = FALSE
    /\ s_pc' = "stop_shutdown"
    /\ UNCHANGED <<prod2Vars, obsVars, codecVars, lifeVars, wakeVars,
                   initVars, makeVars,
                   ringVars, prodVars, consVars, stop_requested, sent_count,
                   wakeup_count, event_fd, thread_joined, agent_alive,
                   shutdown_calls, histVars>>

\* telemetry_agent_stop: transport->shutdown(context)
StopShutdown ==
    /\ s_pc = "stop_shutdown"
    /\ shutdown_calls' = shutdown_calls + 1
    /\ s_pc' = "stop_free"
    /\ UNCHANGED <<prod2Vars, obsVars, codecVars, lifeVars, wakeVars,
                   initVars, makeVars,
                   ringVars, prodVars, consVars, stop_requested, sent_count,
                   wakeup_count, event_fd, thread_joined, wakeup_alive,
                   agent_alive, histVars>>

\* telemetry_agent_stop: free(agent), return
StopFree ==
    /\ s_pc = "stop_free"
    /\ agent_alive' = FALSE
    /\ s_pc' = "returned"
    /\ UNCHANGED <<prod2Vars, obsVars, codecVars, lifeVars, wakeVars,
                   initVars, makeVars,
                   ringVars, prodVars, consVars, stop_requested, sent_count,
                   wakeup_count, event_fd, thread_joined, wakeup_alive,
                   shutdown_calls, histVars>>

----------------------------------------------------------------------------
(* An agent started over a ring that already holds a backlog of records,   *)
(* with one producer thread (push, notify) and one caller of stop.         *)

\* the ring after b accepted pushes and no pop
RingWithBacklog(cap, b) ==
    /\ capacity = cap
    /\ allocation = cap + 1
    /\ buffer = [i \in 0..cap |-> IF i < b THEN NewEvent(i + 1)
                                          ELSE ZeroEvent]
    /\ head = b
    /\ tail = 0
    /\ dropped = 0
    /\ pushed = [i \in 1..b |-> NewEvent(i)]
    /\ attempts = b
    /\ backlog0 = b

\* an empty ring, one record, a full ring
AgentBacklogs ==
    {0, 1, AgentCapacity}

\* telemetry_agent_start succeeded: flags and counters zero, wakeup created
\* (eventfd counter 0), worker thread running consumer_thread_main
InitAgent ==
    /\ \E b \in AgentBacklogs : RingWithBacklog(AgentCapacity, b)
    /\ ThreadsInit("wait")
    /\ NoLifecycle /\ NoRingInit /\ NoEventMake
    /\ stop_requested = FALSE /\ sent_count = 0 /\ wakeup_count = 0
    /\ event_fd = 0 /\ s_pc = "idle" /\ thread_joined = FALSE
    /\ wakeup_alive = TRUE /\ agent_alive = TRUE /\ shutdown_calls = 0
    /\ NoSecondProducer /\ NoObserver /\ NoCodec

ProducerNext ==
    \/ PushLoadHead(MaxAgentPush)
    \/ PushLoadTail
    \/ PushDrop
    \/ PushCopyBegin
    \/ PushCopyEnd
    \/ PushStoreHead
    \/ NotifyCount
    \/ NotifyWrite

WorkerNext ==
    \/ WorkerWait
    \/ PopLoadHead("drain_pop")
    \/ PopLoadTail(DrainAfterPop(FALSE))
    \/ PopCopyBegin
    \/ PopCopyEnd
    \/ PopStoreTail(DrainAfterPop(TRUE))
    \/ SendBegin
    \/ SendReturn
    \/ CheckStop
    \/ ThreadExit

StopNext ==
    \/ StopSetFlag
    \/ StopNotify
    \/ StopJoin
    \/ StopDestroyWakeup
    \/ StopShutdown
    \/ StopFree

NextAgent ==
    \/ ProducerNext
    \/ WorkerNext
    \/ StopNext

SpecAgent == InitAgent /\ [][NextAgent]_vars

\* the worker thread and the thread inside telemetry_agent_stop are
\* scheduled; the producer may stop producing at any time
SpecAgentFair ==
    InitAgent /\ [][NextAgent]_vars /\ WF_vars(WorkerNext) /\ WF_vars(StopNext)

----------------------------------------------------------------------------
(* Properties of the agent, checked under SpecAgent and SpecAgentFair *)

\* C2: at every moment, in every interleaving of producer, notify, stop and
\* worker, the records handed to send_event are a prefix of the accepted
\* pushes: the k-th record sent is the k-th record accepted.
SentIsPrefixOfPushed ==
    /\ sent_fifo
    /\ sent <= Len(pushed)

\* more than one drain pass has been sent, a push accepted while the agent
\* was running, and stop has been called
SentIsPrefixWitness ==
    /\ sent > TELEMETRY_AGENT_MAX_DRAIN_PER_WAKEUP
    /\ Len(pushed) > backlog0
    /\ stop_requested

\* C3 (as stated): when stop has returned, and every push had returned
\* before stop was called and none was made after, every accepted record has
\* been handed to send_event.
StopDeliversAllAccepted ==
    (s_pc = "returned" /\ ~late_push) => sent = Len(pushed)

\* C4 (as stated): the worker is never blocked in osal_wakeup_wait with no
\* signal pending after a drain pass that ended at the drain limit with
\* records left in the ring.
NoBlockingWithBacklogAtLimit ==
    ~(c_pc = "wait" /\ event_fd = 0 /\ cap_backlog)

\* C9: once stop is called the worker terminates and stop returns, under
\* weak fairness of the worker and of the caller of stop, with no further
\* notify needed.
StopTerminates ==
    stop_requested ~> (s_pc = "returned" /\ c_pc = "done")

\* stop is called while the worker is in the middle of a drain pass, inside
\* send_event
StopDuringDrainWitness ==
    /\ s_pc = "stop_notify"
    /\ c_pc = "sending"
    /\ pass = 1
    /\ drained > 0

StopBegun == s_pc # "idle"
StopSignalled == s_pc \notin {"idle", "stop_notify"}
StopJoined == s_pc \notin {"idle", "stop_notify", "stop_join"}
StopWakeupReleased == StopJoined /\ s_pc # "stop_destroy_wakeup"
StopShutdownDone == s_pc \in {"stop_free", "returned"}

InDrainPass ==
    c_pc \in {"drain_pop", "pop_load_tail", "pop_copy", "pop_copy_end",
              "pop_store_tail", "send", "sending"}

\* C31: one call of drain_ring_send_event pops and forwards at most 50
\* records: a pop or a send is in progress only while fewer than 50 have been
\* forwarded in the call, and the call has returned with fewer than 50
\* exactly when its last pop found the ring empty.
DrainPassBounded ==
    /\ drained <= 50
    /\ InDrainPass => drained < 50
    /\ c_pc = "drain_return" => (c_ret = FALSE <=> drained < 50)

\* a drain pass has ended at the limit and left records in the ring
DrainLimitHitWitness ==
    /\ c_pc = "drain_return"
    /\ drained = 50
    /\ c_ret = TRUE
    /\ head # tail

----------------------------------------------------------------------------
(* An agent over a small ring, with a producer that pushes and notifies    *)
(* several times while the worker drains, and a caller of stop.            *)

InitWake ==
    /\ \E b \in {0, WakeCapacity} : RingWithBacklog(WakeCapacity, b)
    /\ ThreadsInit("wait")
    /\ NoLifecycle /\ NoRingInit /\ NoEventMake
    /\ stop_requested = FALSE /\ sent_count = 0 /\ wakeup_count = 0
    /\ event_fd = 0 /\ s_pc = "idle" /\ thread_joined = FALSE
    /\ wakeup_alive = TRUE /\ agent_alive = TRUE /\ shutdown_calls = 0
    /\ NoSecondProducer /\ NoObserver /\ NoCodec

\* the steps of the producer thread inside a call
ProducerStep ==
    \/ PushLoadTail
    \/ PushDrop
    \/ PushCopyBegin
    \/ PushCopyEnd
    \/ PushStoreHead
    \/ NotifyWrite

\* the steps of the worker thread inside ring_buffer_pop
PopStep ==
    \/ PopLoadTail(DrainAfterPop(FALSE))
    \/ PopCopyBegin
    \/ PopCopyEnd
    \/ PopStoreTail(DrainAfterPop(TRUE))

NextWake ==
    \/ PushLoadHead(MaxWakePush)
    \/ NotifyCall(MaxWakeNotify)
    \/ ProducerStep
    \/ WorkerNext
    \/ StopNext

SpecWake == InitWake /\ [][NextWake]_vars

\* C12: a record whose send_event returned false is discarded: the step that
\* takes the result leaves the ring as it is, does not count the record and
\* goes on with the drain pass; sent_count is the number of send_event calls
\* that returned true, and every popped record is handed to send_event
\* exactly once, in the order of the pushes.
SendFailureDiscards ==
    /\ [][ (c_pc = "sending" /\ c_pc' # "sending")
              => /\ head' = head /\ tail' = tail /\ buffer' = buffer
                 /\ pushed' = pushed /\ popped' = popped /\ sent' = sent
                 /\ IF send_fails' = send_fails
                    THEN sent_count' = sent_count + 1
                    ELSE sent_count' = sent_count
                 /\ c_pc' = IF drained' >= TELEMETRY_AGENT_MAX_DRAIN_PER_WAKEUP
                            THEN "drain_return" ELSE "drain_pop"
         ]_vars
    /\ [](/\ sent_count + send_fails
              = sent - (IF c_pc = "sending" THEN 1 ELSE 0)
          /\ sent = popped - (IF c_pc = "send" THEN 1 ELSE 0)
          /\ sent_fifo
          /\ Count = Len(pushed) - popped)

\* the first send_event call returned false and the second record is being
\* sent
SendFailureWitness ==
    /\ send_fails = 1
    /\ sent_count = 0
    /\ sent = 2
    /\ c_pc = "sending"

\* C13: each telemetry_agent_notify call adds exactly one to wakeup_count and
\* then signals the wakeup primitive, whatever the worker is doing and
\* whether or not a signal is pending; the signal of telemetry_agent_stop
\* leaves wakeup_count as it is; so wakeup_count is the number of notify
\* calls made so far.
NotifyCounts ==
    /\ [][ /\ (p_pc = "idle" /\ p_pc' = "notify_write")
              => wakeup_count' = wakeup_count + 1
           /\ (p_pc = "notify_write" /\ p_pc' = "idle")
              => /\ event_fd' = event_fd + 1
                 /\ wakeup_count' = wakeup_count
           /\ (s_pc = "stop_notify" /\ s_pc' = "stop_join")
              => /\ event_fd' = event_fd + 1
                 /\ wakeup_count' = wakeup_count
           /\ wakeup_count' # wakeup_count
              => (p_pc = "idle" /\ p_pc' = "notify_write")
         ]_vars
    /\ [](wakeup_count = notifies)

\* a second notify has been made and signalled while the worker was inside
\* send_event in the drain pass started by the first
NotifyWhileDrainingWitness ==
    /\ wakeup_count = 2
    /\ event_fd = 1
    /\ p_pc = "idle"
    /\ c_pc = "sending"
    /\ ~stop_requested

\* C14: a signal (a notify's or stop's) is never lost: the counter of the
\* wakeup primitive only falls when osal_wakeup_wait returns, which takes all
\* signals pending at once; osal_wakeup_wait returns exactly when at least
\* one signal has been issued since its last return, wherever the worker was
\* when the signal was issued, and blocks otherwise.
NoLostWakeup ==
    /\ [][ /\ ((p_pc = "notify_write" /\ p_pc' = "idle")
                  \/ (s_pc = "stop_notify" /\ s_pc' = "stop_join"))
              => event_fd' > 0
           /\ event_fd' < event_fd
              => (c_pc = "wait" /\ c_pc' = "drain_pop")
           /\ (c_pc = "wait" /\ c_pc' # "wait")
              => (event_fd > 0 /\ event_fd' = 0)
         ]_vars
    /\ [](c_pc = "wait" => (ENABLED WorkerWait <=> event_fd > 0))

\* the second notify was signalled after the drain pass started by the
\* first, before the worker has checked the stop flag and gone back to wait
SignalBeforeWaitWitness ==
    /\ c_pc = "drain_return"
    /\ pass = 1
    /\ wakeup_count = 2
    /\ event_fd = 1
    /\ ~stop_requested
    /\ popped > 0

\* the position of a thread inside ring_buffer_push, ring_buffer_pop or
\* telemetry_agent_notify: the number of steps the call has taken; 9 when
\* the thread is not inside such a call
CallRank(pc) ==
    CASE pc \in {"push_load_tail", "pop_load_tail", "notify_write"} -> 1
      [] pc \in {"push_drop", "push_copy", "pop_copy"} -> 2
      [] pc \in {"push_copy_end", "pop_copy_end"} -> 3
      [] pc \in {"push_store_head", "pop_store_tail"} -> 4
      [] OTHER -> 9

\* C15: push, pop and notify never wait: at every point inside such a call
\* the calling thread has a next step whatever the state of the other
\* threads, and every step takes it nearer to the return, which comes after
\* four steps at most; a full ring makes push return false, an empty ring
\* makes pop return false.  The worker can only be held in
\* osal_wakeup_wait, the caller of stop only in the join.
NeverBlocks ==
    /\ CallRank(p_pc) < 9
          => ENABLED (ProducerStep /\ CallRank(p_pc') > CallRank(p_pc))
    /\ CallRank(c_pc) < 9
          => ENABLED (PopStep /\ CallRank(c_pc') > CallRank(c_pc))
    /\ c_pc \notin {"wait", "done"} => ENABLED WorkerNext
    /\ (c_pc = "wait" /\ event_fd = 0) => ~ENABLED WorkerNext
    /\ s_pc \notin {"idle", "stop_join", "returned"} => ENABLED StopNext
    /\ (s_pc = "stop_join" /\ c_pc # "done") => ~ENABLED StopNext
    /\ (p_pc = "idle" /\ ~p_ret) => dropped > 0

\* a push is being rejected by a full ring while the worker is blocked in
\* osal_wakeup_wait with no signal pending
PushFullWhileBlockedWitness ==
    /\ p_pc = "push_drop"
    /\ c_pc = "wait"
    /\ event_fd = 0
    /\ Count = capacity

\* the worker is at the start of a drain pass or between two passes
BetweenPasses ==
    c_pc \in {"wait", "drain_return"}

\* C30: the worker blocks rather than polls.  While it is in
\* osal_wakeup_wait and no signal is pending (the eventfd counter is 0) it
\* stays there, whatever the ring holds, and nothing is popped or sent;
\* records are popped only inside a drain pass; a drain pass begins either
\* with a return from osal_wakeup_wait on a pending signal or, as the second
\* pass after that return, when the stop flag is set; after the second pass
\* the worker ends.
WorkerBlocksNotPolls ==
    [][/\ (c_pc = "wait" /\ event_fd = 0)
             => /\ c_pc' = "wait"
                /\ tail' = tail
                /\ popped' = popped
                /\ sent' = sent
       /\ (tail' # tail \/ popped' # popped)
             => (wait_returns >= 1 /\ ~BetweenPasses /\ c_pc # "done")
       /\ (BetweenPasses /\ c_pc' = "drain_pop")
             => \/ /\ c_pc = "wait"
                   /\ event_fd > 0
                   /\ wait_returns' = wait_returns + 1
                   /\ pass' = 1
                \/ /\ c_pc = "drain_return"
                   /\ stop_requested
                   /\ pass = 1
                   /\ pass' = 2
       /\ (c_pc = "drain_return" /\ pass = 2)
             => c_pc' \in {"drain_return", "done"}
      ]_vars

\* the worker has drained once and is blocked again, no signal is pending,
\* and a record pushed since waits in the ring
BlockedWithBacklogWitness ==
    /\ c_pc = "wait"
    /\ event_fd = 0
    /\ p_pc = "idle"
    /\ wait_returns >= 1
    /\ head # tail
    /\ ~stop_requested

\* C32: the stop flag, once set, stays set.  A worker that has finished a
\* drain pass after a wait goes back to osal_wakeup_wait when it reads the
\* flag unset, and begins one more drain pass when it reads it set; from
\* then on it never waits again, begins no further pass, and ends when that
\* pass returns.
FinalDrainThenExit ==
    [][/\ stop_requested => stop_requested'
       /\ (c_pc = "drain_return" /\ pass = 1
             /\ (c_pc' # c_pc \/ pass' # pass))
             => IF stop_requested
                THEN c_pc' = "drain_pop" /\ pass' = 2
                ELSE c_pc' = "wait" /\ pass' = 1
       /\ pass = 2
             => /\ pass' = 2
                /\ c_pc' # "wait"
                /\ wait_returns' = wait_returns
       /\ (c_pc = "drain_return" /\ pass = 2 /\ c_pc' # c_pc)
             => c_pc' = "done"
       /\ c_pc = "done" => c_pc' = "done"
      ]_vars

\* the worker is forwarding a record in its final drain pass
FinalPassSendingWitness ==
    /\ pass = 2
    /\ c_pc = "sending"
    /\ stop_requested

\* the calls of ring_buffer_push that have returned
PushCallsReturned ==
    IF p_pc \in {"idle", "notify_write"} THEN attempts ELSE attempts - 1

\* C33: records are conserved while the agent runs with one producer: the
\* pushes that returned true are the records queued in the ring plus the
\* records popped; the records popped are the send_event calls started, plus
\* the one record that is between its pop and its send; every push that has
\* returned was accepted or was rejected and counted in dropped.
RecordsConserved ==
    /\ Len(pushed) = ring_buffer_count(head, tail, allocation) + popped
    /\ popped = sent + (IF c_pc = "send" THEN 1 ELSE 0)
    /\ PushCallsReturned = Len(pushed) + dropped
    /\ dropped = Cardinality(rejected)

\* a push has been rejected, a record is between its pop and its send, and
\* another record waits in the ring
PoppedNotYetSentWitness ==
    /\ dropped >= 1
    /\ c_pc = "send"
    /\ head # tail
    /\ sent >= 1

\* C34: while the agent lives, ring_buffer_pop runs on the worker thread
\* only: a step that moves tail is the worker's store of tail and no step of
\* the thread calling push, notify or stop; a step of that thread leaves
\* tail and the worker's position and locals alone; the join in
\* telemetry_agent_stop returns only after the worker has ended its final
\* drain pass, and nothing is popped afterwards.
SingleConsumerPreserved ==
    [][/\ (tail' # tail \/ popped' # popped)
             => (c_pc = "pop_store_tail" /\ p_pc' = p_pc /\ s_pc' = s_pc)
       /\ (p_pc' # p_pc \/ s_pc' # s_pc)
             => UNCHANGED <<tail, popped, c_pc, c_head, c_tail, c_out>>
       /\ (thread_joined' /\ ~thread_joined)
             => (c_pc = "done" /\ pass = 2)
       /\ thread_joined => (c_pc' = "done" /\ tail' = tail)
      ]_vars

\* stop has returned after the worker popped a record in its final pass
StoppedAfterWorkerPopsWitness ==
    /\ s_pc = "returned"
    /\ thread_joined
    /\ c_pc = "done"
    /\ popped >= 1
    /\ notifies = 0

\* C28 (as stated): the value telemetry_agent_wakeup_count reads is the
\* number of times the worker has returned from osal_wakeup_wait: once every
\* signal issued has been consumed (no notify is between its count and its
\* write, the eventfd counter is 0), the two numbers are equal.  Stated for
\* the time before telemetry_agent_stop is called, so that the signal of
\* stop plays no part.
WakeupCountIsWaitReturns ==
    (s_pc = "idle" /\ p_pc # "notify_write" /\ event_fd = 0)
       => wakeup_count = wait_returns

----------------------------------------------------------------------------
(* The example run: an agent over an empty ring of 1024 records and a sink *)
(* whose send always succeeds; one thread pushes ten records, calls        *)
(* telemetry_agent_notify once and then telemetry_agent_stop.              *)

InitExample ==
    /\ RingWithBacklog(ExampleCapacity, 0)
    /\ ThreadsInit("wait")
    /\ NoLifecycle /\ NoRingInit /\ NoEventMake
    /\ stop_requested = FALSE /\ sent_count = 0 /\ wakeup_count = 0
    /\ event_fd = 0 /\ s_pc = "idle" /\ thread_joined = FALSE
    /\ wakeup_alive = TRUE /\ agent_alive = TRUE /\ shutdown_calls = 0
    /\ NoSecondProducer /\ NoObserver /\ NoCodec

\* the calling thread, in program order (the ring is never full)
ExampleCaller ==
    \/ notifies = 0 /\ PushLoadHead(MAXIMUM_NUM_OF_EVENTS)
    \/ PushLoadTail
    \/ PushCopyBegin
    \/ PushCopyEnd
    \/ PushStoreHead
    \/ attempts = MAXIMUM_NUM_OF_EVENTS /\ NotifyCall(1)
    \/ NotifyWrite
    \/ notifies = 1 /\ p_pc = "idle" /\ StopSetFlag
    \/ StopNotify
    \/ StopJoin
    \/ StopDestroyWakeup
    \/ StopShutdown
    \/ StopFree

ExampleWorker ==
    \/ WorkerWait
    \/ PopLoadHead("drain_pop")
    \/ PopLoadTail(DrainAfterPop(FALSE))
    \/ PopCopyBegin
    \/ PopCopyEnd
    \/ PopStoreTail(DrainAfterPop(TRUE))
    \/ SendBegin
    \/ SendReturnWith({TRUE})
    \/ CheckStop
    \/ ThreadExit

NextExample ==
    \/ ExampleCaller
    \/ ExampleWorker

SpecExample == InitExample /\ [][NextExample]_vars

----------------------------------------------------------------------------
(* telemetry_protocol.c: the header codec.                                  *)
(*                                                                          *)
(* An unsigned integer of w bytes is the tuple of its w base-256 digits,    *)
(* most significant first (uint64_t does not fit the integers of the model  *)
(* checker); a uint8_t is a number.  A shift by 8k moves a digit k places,  *)
(* a mask selects digits.  A buffer is a function from byte offsets to      *)
(* bytes; NotWritten marks a byte the callee has not stored to.             *)

NotWritten == 0 - 1

\* 0x54454C31, "TEL1"
TELEMETRY_PROTOCOL_MAGIC_VALUE == <<84, 69, 76, 49>>

\* value = (value >> 8) | (value << 8)
to_be_u16(value) ==
    <<value[2], value[1]>>

\* the four masked and shifted bytes of value, or'ed: byte 0 to byte 3,
\* byte 1 to byte 2, byte 2 to byte 1, byte 3 to byte 0
to_be_u32(value) ==
    <<value[4], value[3], value[2], value[1]>>

\* the eight masked and shifted bytes of value, or'ed
to_be_u64(value) ==
    <<value[8], value[7], value[6], value[5],
      value[4], value[3], value[2], value[1]>>

\* buffer[0] = value
put_u8(buf, at, value) ==
    [buf EXCEPT ![at] = value]

\* buff_bigend = to_be_u16(value); buffer[0] = buff_bigend >> 8;
\* buffer[1] = buff_bigend & 0xFF
put_u16_be(buf, at, value) ==
    LET buff_bigend == to_be_u16(value)
    IN  [buf EXCEPT ![at] = buff_bigend[1], ![at + 1] = buff_bigend[2]]

\* buff_bigend = to_be_u32(value); buffer[i] = (buff_bigend >> (24 - 8i))
put_32_be(buf, at, value) ==
    LET buff_bigend == to_be_u32(value)
    IN  [buf EXCEPT ![at]     = buff_bigend[1], ![at + 1] = buff_bigend[2],
                       ![at + 2] = buff_bigend[3], ![at + 3] = buff_bigend[4]]

\* buff_bigend = to_be_u64(value); buffer[i] = (buff_bigend >> (56 - 8i))
put_64_be(buf, at, value) ==
    LET buff_bigend == to_be_u64(value)
    IN  [buf EXCEPT ![at]     = buff_bigend[1], ![at + 1] = buff_bigend[2],
                       ![at + 2] = buff_bigend[3], ![at + 3] = buff_bigend[4],
                       ![at + 4] = buff_bigend[5], ![at + 5] = buff_bigend[6],
                       ![at + 6] = buff_bigend[7], ![at + 7] = buff_bigend[8]]

get_u8(buf, at) ==
    buf[at]

\* (buffer[0] << 8) | buffer[1]
get_u16_be(buf, at) ==
    <<buf[at], buf[at + 1]>>

\* (buffer[0] << 24) | (buffer[1] << 16) | (buffer[2] << 8) | buffer[3]
get_u32_be(buf, at) ==
    <<buf[at], buf[at + 1], buf[at + 2], buf[at + 3]>>

\* (buffer[0] << 56) | ... | buffer[7]
get_u64_be(buf, at) ==
    <<buf[at],     buf[at + 1], buf[at + 2], buf[at + 3],
      buf[at + 4], buf[at + 5], buf[at + 6], buf[at + 7]>>

\* value > n for a uint32_t value and a number n below 2^31
U32Exceeds(value, n) ==
    IF value[1] >= 128 THEN TRUE
    ELSE ((value[1] * 256 + value[2]) * 256 + value[3]) * 256 + value[4] > n

\* faulty variant: the protocol version is not validated
EncodeArgumentsValidAnyVersion(capacity_, header, nulls) ==
    /\ "encoded_buffer" \notin nulls
    /\ "header" \notin nulls
    /\ capacity_ >= HEADER_V1_SIZE
    /\ header.magic_value = TELEMETRY_PROTOCOL_MAGIC_VALUE
    /\ header.header_length = TELEMETRY_HEADER_LEN

\* telemetry_encode_header_v1: the checks that make it return 0, in order;
\* nulls is the set of the pointer arguments that are NULL
EncodeArgumentsValid(capacity_, header, nulls) ==
    /\ "encoded_buffer" \notin nulls
    /\ "header" \notin nulls
    /\ capacity_ >= HEADER_V1_SIZE
    /\ header.magic_value = TELEMETRY_PROTOCOL_MAGIC_VALUE
    /\ header.protocol_version = TELEMETRY_PROTOCOL_VERSION_V1
    /\ header.header_length = TELEMETRY_HEADER_LEN

\* telemetry_encode_header_v1: the number of bytes written and the buffer
\* afterwards.  The call that stores the crc32 field passes no value
\* (put_32_be(&encoded_buffer[OFFSET_CRC32])): crc is the unspecified value
\* that is stored.
telemetry_encode_header_v1(buf, capacity_, header, nulls, crc) ==
    IF ~EncodeArgumentsValid(capacity_, header, nulls)
    THEN [size |-> 0, buf |-> buf]
    ELSE LET b1 == put_32_be(buf, OFFSET_MAGIC_VALUE, header.magic_value)
             b2 == put_u8(b1, OFFSET_PROTOCOL_VERSION,
                          header.protocol_version)
             b3 == put_u8(b2, OFFSET_HEADER_LENGTH, header.header_length)
             b4 == put_u16_be(b3, OFFSET_MESSAGE_TYPE, header.message_type)
             b5 == put_32_be(b4, OFFSET_SEQUENCE_NUMBER,
                             header.sequence_counter)
             b6 == put_64_be(b5, OFFSET_TIMESTAMP,
                             header.timestamp_monotonic_ns)
             b7 == put_32_be(b6, OFFSET_PAYLOAD_LENGTH, header.payload_len)
             b8 == put_32_be(b7, OFFSET_CRC32, crc)
             b9 == put_32_be(b8, OFFSET_RESERVED, header.reserved)
         IN  [size |-> HEADER_V1_SIZE, buf |-> b9]

\* telemetry_decode_header_v1: the fields read from the buffer
DecodedFields(buf) ==
    [magic_value            |-> get_u32_be(buf, OFFSET_MAGIC_VALUE),
     protocol_version       |-> get_u8(buf, OFFSET_PROTOCOL_VERSION),
     header_length          |-> get_u8(buf, OFFSET_HEADER_LENGTH),
     message_type           |-> get_u16_be(buf, OFFSET_MESSAGE_TYPE),
     sequence_counter       |-> get_u32_be(buf, OFFSET_SEQUENCE_NUMBER),
     timestamp_monotonic_ns |-> get_u64_be(buf, OFFSET_TIMESTAMP),
     payload_len            |-> get_u32_be(buf, OFFSET_PAYLOAD_LENGTH),
     crc32                  |-> get_u32_be(buf, OFFSET_CRC32),
     reserved               |-> get_u32_be(buf, OFFSET_RESERVED)]

\* faulty variant: a message type that is none of the protocol's three is
\* rejected
DecodedHeaderCodeTypeChecked(d, buffer_length) ==
    IF d.magic_value # TELEMETRY_PROTOCOL_MAGIC_VALUE
    THEN TELEM_RC_ERR_MAGIC
    ELSE IF d.protocol_version # TELEMETRY_PROTOCOL_VERSION_V1
    THEN TELEM_RC_ERR_VERSION
    ELSE IF d.header_length # TELEMETRY_HEADER_LEN
    THEN TELEM_RC_ERR_HEADER_LEN
    ELSE IF d.message_type \notin {<<0, 1>>, <<0, 2>>, <<0, 3>>}
    THEN TELEM_RC_ERR_RANGE
    ELSE IF U32Exceeds(d.payload_len, buffer_length - 1)
    THEN TELEM_RC_ERR_RANGE
    ELSE TELEM_RC_OK

\* faulty variant: the protocol version is validated before the magic value
DecodedHeaderCodeVersionFirst(d, buffer_length) ==
    IF d.protocol_version # TELEMETRY_PROTOCOL_VERSION_V1
    THEN TELEM_RC_ERR_VERSION
    ELSE IF d.magic_value # TELEMETRY_PROTOCOL_MAGIC_VALUE
    THEN TELEM_RC_ERR_MAGIC
    ELSE IF d.header_length # TELEMETRY_HEADER_LEN
    THEN TELEM_RC_ERR_HEADER_LEN
    ELSE IF U32Exceeds(d.payload_len, buffer_length - 1)
    THEN TELEM_RC_ERR_RANGE
    ELSE TELEM_RC_OK

\* telemetry_decode_header_v1: the checks made on the decoded header, in
\* order (sizeof(decoded_header->header_length) is 1)
DecodedHeaderCode(d, buffer_length) ==
    IF d.magic_value # TELEMETRY_PROTOCOL_MAGIC_VALUE
    THEN TELEM_RC_ERR_MAGIC
    ELSE IF d.protocol_version # TELEMETRY_PROTOCOL_VERSION_V1
    THEN TELEM_RC_ERR_VERSION
    ELSE IF d.header_length # TELEMETRY_HEADER_LEN
    THEN TELEM_RC_ERR_HEADER_LEN
    ELSE IF U32Exceeds(d.payload_len, buffer_length - 1)
    THEN TELEM_RC_ERR_RANGE
    ELSE IF d.header_length # HEADER_V1_SIZE
    THEN TELEM_RC_ERR_HEADER_LEN
    ELSE TELEM_RC_OK

\* faulty variant: the fields are stored only once every check has passed
decode_header_v1_validating(decoded_header, buf, buffer_length, nulls) ==
    IF "decoded_header" \in nulls \/ "buffer" \in nulls
    THEN [rc |-> TELEM_RC_ERR_PARM, header |-> decoded_header]
    ELSE IF buffer_length < HEADER_V1_SIZE
    THEN [rc |-> TELEM_RC_ERR_TRUNC, header |-> decoded_header]
    ELSE LET rc == DecodedHeaderCode(DecodedFields(buf), buffer_length)
         IN  [rc     |-> rc,
              header |-> IF rc = TELEM_RC_OK
                         THEN DecodedFields(buf)
                         ELSE decoded_header]

\* telemetry_decode_header_v1: the return code and the caller's header
\* afterwards; nulls is the set of the pointer arguments that are NULL
telemetry_decode_header_v1(decoded_header, buf, buffer_length, nulls) ==
    IF "decoded_header" \in nulls \/ "buffer" \in nulls
    THEN [rc |-> TELEM_RC_ERR_PARM, header |-> decoded_header]
    ELSE IF buffer_length < HEADER_V1_SIZE
    THEN [rc |-> TELEM_RC_ERR_TRUNC, header |-> decoded_header]
    ELSE [rc     |-> DecodedHeaderCode(DecodedFields(buf), buffer_length),
          header |-> DecodedFields(buf)]

----------------------------------------------------------------------------
(* A caller that encodes a header into a buffer of its own and decodes the *)
(* bytes it got.                                                           *)

\* the headers handed to the encoder: each field right or wrong, small or
\* with its high bits set
HeaderInputs ==
    [magic_value            : {TELEMETRY_PROTOCOL_MAGIC_VALUE,
                               <<84, 69, 76, 50>>},
     protocol_version       : {TELEMETRY_PROTOCOL_VERSION_V1, 2},
     header_length          : {TELEMETRY_HEADER_LEN, 31},
     message_type           : {<<0, 1>>, <<18, 52>>},
     sequence_counter       : {<<0, 0, 0, 7>>, <<128, 1, 2, 3>>},
     timestamp_monotonic_ns : {<<0, 0, 0, 0, 0, 0, 0, 9>>,
                               <<255, 1, 2, 3, 4, 5, 6, 7>>},
     payload_len            : {<<0, 0, 0, 0>>, <<0, 0, 0, 1>>,
                               <<0, 0, 1, 0>>},
     crc32                  : {<<0, 0, 0, 0>>, <<202, 254, 186, 190>>},
     reserved               : {<<0, 0, 0, 0>>, <<0, 0, 0, 5>>}]

\* the sizes of the caller's buffer: one byte short, exact, one byte more
BufferCapacities ==
    {HEADER_V1_SIZE - 1, HEADER_V1_SIZE, HEADER_V1_SIZE + 1}

\* the values the crc32 store may pick up: zero or anything else
UnspecifiedU32 ==
    {<<0, 0, 0, 0>>, <<222, 173, 190, 239>>}

\* the caller's telemetry_header_t before decoding
StaleHeader ==
    [magic_value            |-> <<1, 1, 1, 1>>,
     protocol_version       |-> 9,
     header_length          |-> 9,
     message_type           |-> <<9, 9>>,
     sequence_counter       |-> <<9, 9, 9, 9>>,
     timestamp_monotonic_ns |-> <<9, 9, 9, 9, 9, 9, 9, 9>>,
     payload_len            |-> <<9, 9, 9, 9>>,
     crc32                  |-> <<9, 9, 9, 9>>,
     reserved               |-> <<9, 9, 9, 9>>]

InitCodec ==
    /\ RingInit(1)
    /\ backlog0 = 0 /\ attempts = 0 /\ pushed = << >>
    /\ ThreadsInit("none")
    /\ NoLifecycle /\ NoRingInit /\ NoEventMake
    /\ NoAgent
    /\ NoSecondProducer /\ NoObserver
    /\ k_pc = "start"
    /\ k_header \in HeaderInputs
    /\ k_capacity \in BufferCapacities
    /\ k_null \in SUBSET {"encoded_buffer", "header"}
    /\ k_buffer = [i \in 0..(k_capacity - 1) |-> NotWritten]
    /\ k_size = 0
    /\ k_decoded = StaleHeader
    /\ k_rc = 0

\* size = telemetry_encode_header_v1(buffer, capacity, &header)
EncodeHeader ==
    /\ k_pc = "start"
    /\ \E crc \in UnspecifiedU32 :
          LET r == telemetry_encode_header_v1(k_buffer, k_capacity, k_header,
                                              k_null, crc)
          IN  /\ k_size' = r.size
              /\ k_buffer' = r.buf
    /\ k_pc' = "encoded"
    /\ UNCHANGED <<ringVars, prodVars, consVars, agentVars, histVars,
                   prod2Vars, obsVars, lifeVars, wakeVars, initVars, makeVars,
                   k_header, k_capacity, k_null,
                   k_decoded, k_rc>>

\* rc = telemetry_decode_header_v1(&decoded, buffer, capacity), on the bytes
\* of a successful encode
DecodeEncoded ==
    /\ k_pc = "encoded"
    /\ k_size = HEADER_V1_SIZE
    /\ LET r == telemetry_decode_header_v1(k_decoded, k_buffer, k_capacity,
                                            {})
       IN  /\ k_rc' = r.rc
           /\ k_decoded' = r.header
    /\ k_pc' = "decoded"
    /\ UNCHANGED <<ringVars, prodVars, consVars, agentVars, histVars,
                   prod2Vars, obsVars, lifeVars, wakeVars, initVars, makeVars,
                   k_header, k_capacity, k_null,
                   k_buffer, k_size>>

NextCodec ==
    \/ EncodeHeader
    \/ DecodeEncoded

SpecCodec == InitCodec /\ [][NextCodec]_vars

----------------------------------------------------------------------------
(* Properties of the header codec, checked under SpecCodec *)

\* the w bytes of a buffer from offset at on, as a tuple
FieldBytes(buf, at, w) ==
    [i \in 1..w |-> buf[at + i - 1]]

\* the three fixed fields of the caller's header equal the protocol
\* constants
HeaderConstantsRight ==
    /\ k_header.magic_value = <<84, 69, 76, 49>>
    /\ k_header.protocol_version = 1
    /\ k_header.header_length = 32

\* the encoder was called with non-null pointers and room for 32 bytes
EncodeCallRight ==
    /\ k_null = {}
    /\ k_capacity >= 32

\* C18 (as stated): a header whose three fixed fields are right and whose
\* payload_len fits the decode input is encoded, and decoding the encoded
\* bytes returns TELEM_RC_OK and a header equal to it in all nine fields.
HeaderRoundTrip ==
    /\ (k_pc # "start" /\ HeaderConstantsRight /\ EncodeCallRight)
          => k_size = 32
    /\ (k_pc = "decoded"
          /\ ~U32Exceeds(k_header.payload_len, k_capacity - 32))
          => /\ k_rc = TELEM_RC_OK
             /\ k_decoded = k_header

\* C19 (as stated): after a successful encode every field is in the buffer
\* most significant byte first at its offset; the magic is the bytes
\* 0x54, 0x45, 0x4C, 0x31 at offsets 0..3.
BigEndianLayout ==
    k_size = 32 =>
       /\ FieldBytes(k_buffer, 0, 4) = k_header.magic_value
       /\ FieldBytes(k_buffer, 0, 4) = <<84, 69, 76, 49>>
       /\ k_buffer[4] = k_header.protocol_version
       /\ k_buffer[5] = k_header.header_length
       /\ FieldBytes(k_buffer, 6, 2) = k_header.message_type
       /\ FieldBytes(k_buffer, 8, 4) = k_header.sequence_counter
       /\ FieldBytes(k_buffer, 12, 8) = k_header.timestamp_monotonic_ns
       /\ FieldBytes(k_buffer, 20, 4) = k_header.payload_len
       /\ FieldBytes(k_buffer, 24, 4) = k_header.crc32
       /\ FieldBytes(k_buffer, 28, 4) = k_header.reserved

\* C20: the encoder validates and does not normalize: with a wrong magic,
\* version or header length, a capacity below 32 or a null pointer it
\* returns 0 and stores to no byte of the buffer; otherwise it returns 32,
\* stores to exactly the bytes 0..31, and the version and header length
\* bytes are the caller's.
EncodeValidates ==
    k_pc # "start" =>
       IF HeaderConstantsRight /\ EncodeCallRight
       THEN /\ k_size = 32
            /\ \A i \in 0..(k_capacity - 1) :
                  (k_buffer[i] # NotWritten) <=> (i < 32)
            /\ k_buffer[4] = k_header.protocol_version
            /\ k_buffer[5] = k_header.header_length
       ELSE /\ k_size = 0
            /\ \A i \in 0..(k_capacity - 1) : k_buffer[i] = NotWritten

\* a header with a wrong version only, offered with a buffer of 33 bytes,
\* has been rejected
EncodeRejectedWitness ==
    /\ k_pc = "encoded"
    /\ k_size = 0
    /\ k_null = {}
    /\ k_capacity = 33
    /\ k_header.magic_value = TELEMETRY_PROTOCOL_MAGIC_VALUE
    /\ k_header.protocol_version = 2
    /\ k_header.header_length = TELEMETRY_HEADER_LEN

----------------------------------------------------------------------------
(* A receiver that decodes bytes it got from elsewhere: any length, any     *)
(* field values, either pointer possibly NULL.                              *)

\* the headers on the wire: each validated field right or wrong, payload_len
\* around the sizes of the input, a message type of the protocol or not,
\* and two values of each field that is only carried
WireHeaders ==
    [magic_value            : {TELEMETRY_PROTOCOL_MAGIC_VALUE,
                               <<84, 69, 76, 50>>, <<49, 76, 69, 84>>},
     protocol_version       : {TELEMETRY_PROTOCOL_VERSION_V1, 2},
     header_length          : {TELEMETRY_HEADER_LEN, 31},
     message_type           : {<<0, 1>>, <<18, 52>>},
     sequence_counter       : {<<0, 0, 0, 7>>, <<128, 1, 2, 3>>},
     timestamp_monotonic_ns : {<<0, 0, 0, 0, 0, 0, 0, 9>>,
                               <<255, 1, 2, 3, 4, 5, 6, 7>>},
     payload_len            : {<<0, 0, 0, 0>>, <<0, 0, 0, 1>>,
                               <<0, 0, 0, 2>>, <<0, 0, 0, 33>>,
                               <<128, 0, 0, 0>>},
     crc32                  : {<<0, 0, 0, 0>>, <<202, 254, 186, 190>>},
     reserved               : {<<0, 0, 0, 0>>, <<0, 0, 0, 5>>}]

\* the lengths of the input: empty, one byte short of a header, a header,
\* a header and one or two bytes of payload
InputLengths ==
    {0, HEADER_V1_SIZE - 1, HEADER_V1_SIZE, HEADER_V1_SIZE + 1,
     HEADER_V1_SIZE + 2}

\* byte i of a message that carries header h most significant byte first,
\* followed by payload bytes
WireByte(h, i) ==
    IF i < 4 THEN h.magic_value[i + 1]
    ELSE IF i = 4 THEN h.protocol_version
    ELSE IF i = 5 THEN h.header_length
    ELSE IF i < 8 THEN h.message_type[i - 5]
    ELSE IF i < 12 THEN h.sequence_counter[i - 7]
    ELSE IF i < 20 THEN h.timestamp_monotonic_ns[i - 11]
    ELSE IF i < 24 THEN h.payload_len[i - 19]
    ELSE IF i < 28 THEN h.crc32[i - 23]
    ELSE IF i < 32 THEN h.reserved[i - 27]
    ELSE 170

InitDecode ==
    /\ RingInit(1)
    /\ backlog0 = 0 /\ attempts = 0 /\ pushed = << >>
    /\ ThreadsInit("none")
    /\ NoLifecycle /\ NoRingInit /\ NoEventMake
    /\ NoAgent
    /\ NoSecondProducer /\ NoObserver
    /\ k_pc = "received"
    /\ k_header \in WireHeaders
    /\ k_capacity \in InputLengths
    /\ k_null \in SUBSET {"decoded_header", "buffer"}
    /\ k_buffer = [i \in 0..(k_capacity - 1) |-> WireByte(k_header, i)]
    /\ k_size = 0
    /\ k_decoded = StaleHeader
    /\ k_rc = 0

\* rc = telemetry_decode_header_v1(&decoded, buffer, buffer_length)
DecodeInput ==
    /\ k_pc = "received"
    /\ LET r == telemetry_decode_header_v1(k_decoded, k_buffer, k_capacity,
                                            k_null)
       IN  /\ k_rc' = r.rc
           /\ k_decoded' = r.header
    /\ k_pc' = "input_decoded"
    /\ UNCHANGED <<ringVars, prodVars, consVars, agentVars, histVars,
                   prod2Vars, obsVars, lifeVars, wakeVars, initVars, makeVars,
                   k_header, k_capacity, k_null,
                   k_buffer, k_size>>

NextDecode ==
    DecodeInput

SpecDecode == InitDecode /\ [][NextDecode]_vars

----------------------------------------------------------------------------
(* Properties of the decoder, checked under SpecDecode *)

\* the input has a full header whose magic, version and header length bytes
\* are right, and both pointers are non-null
InputHeaderAccepted ==
    /\ k_null = {}
    /\ k_capacity >= 32
    /\ FieldBytes(k_buffer, 0, 4) = <<84, 69, 76, 49>>
    /\ k_buffer[4] = 1
    /\ k_buffer[5] = 32

\* C21: with both pointers non-null, an input shorter than 32 bytes is
\* answered TELEM_RC_ERR_TRUNC whatever it holds, and an input of 32 bytes or
\* more whose first four bytes are not 0x54 0x45 0x4C 0x31 is answered
\* TELEM_RC_ERR_MAGIC whatever its version, header length and payload_len.
DecodeRejectsShortAndForeign ==
    (k_pc = "input_decoded" /\ k_null = {}) =>
       /\ k_capacity < 32 => k_rc = 0 - 3
       /\ (k_capacity >= 32 /\ FieldBytes(k_buffer, 0, 4) # <<84, 69, 76, 49>>)
             => k_rc = 0 - 4

\* an input of 33 bytes in which the magic, the version, the header length
\* and payload_len are all wrong has been answered
ForeignMagicWitness ==
    /\ k_pc = "input_decoded"
    /\ k_null = {}
    /\ k_capacity = 33
    /\ FieldBytes(k_buffer, 0, 4) = <<84, 69, 76, 50>>
    /\ k_buffer[4] = 2
    /\ k_buffer[5] = 31
    /\ FieldBytes(k_buffer, 20, 4) = <<128, 0, 0, 0>>
    /\ k_rc = TELEM_RC_ERR_MAGIC

\* C22 (as stated): an input of 32 bytes or more with the right magic,
\* version and header length is answered TELEM_RC_ERR_RANGE exactly when its
\* payload_len exceeds buffer_length - 32, and TELEM_RC_OK otherwise.
DecodeRangeExact ==
    (k_pc = "input_decoded" /\ InputHeaderAccepted) =>
       IF U32Exceeds(FieldBytes(k_buffer, 20, 4), k_capacity - 32)
       THEN k_rc = TELEM_RC_ERR_RANGE
       ELSE k_rc = TELEM_RC_OK

\* C35 (as stated): the return code is that of the first violated check in
\* the order null argument, truncation, magic, version, header length,
\* payload out of range (payload_len exceeds the buffer_length - 32 bytes
\* that remain after the header), and TELEM_RC_OK when none is violated.
DecodeFirstViolatedCheck ==
    k_pc = "input_decoded" =>
       k_rc = IF k_null # {}
              THEN TELEM_RC_ERR_PARM
              ELSE IF k_capacity < 32
              THEN TELEM_RC_ERR_TRUNC
              ELSE IF FieldBytes(k_buffer, 0, 4) # <<84, 69, 76, 49>>
              THEN TELEM_RC_ERR_MAGIC
              ELSE IF k_buffer[4] # 1
              THEN TELEM_RC_ERR_VERSION
              ELSE IF k_buffer[5] # 32
              THEN TELEM_RC_ERR_HEADER_LEN
              ELSE IF U32Exceeds(FieldBytes(k_buffer, 20, 4), k_capacity - 32)
              THEN TELEM_RC_ERR_RANGE
              ELSE TELEM_RC_OK

\* the offsets of the bytes that are carried and never validated:
\* message_type, sequence_counter, timestamp, crc32, reserved
CarriedOffsets ==
    (6..19) \cup (24..31)

\* headers that differ in the carried fields only
CarriedVariants ==
    [magic_value            : {TELEMETRY_PROTOCOL_MAGIC_VALUE},
     protocol_version       : {TELEMETRY_PROTOCOL_VERSION_V1},
     header_length          : {TELEMETRY_HEADER_LEN},
     message_type           : {<<0, 2>>, <<255, 255>>},
     sequence_counter       : {<<0, 0, 0, 0>>, <<255, 255, 255, 255>>},
     timestamp_monotonic_ns : {<<0, 0, 0, 0, 0, 0, 0, 0>>,
                               <<128, 0, 0, 0, 0, 0, 0, 1>>},
     payload_len            : {<<0, 0, 0, 0>>},
     crc32                  : {<<0, 0, 0, 1>>, <<255, 255, 255, 255>>},
     reserved               : {<<0, 0, 0, 0>>, <<255, 0, 0, 0>>}]

\* the input with its carried bytes replaced by those of header h
WithCarriedBytesOf(buf, h) ==
    [i \in DOMAIN buf |-> IF i \in CarriedOffsets THEN WireByte(h, i)
                                                  ELSE buf[i]]

\* C39: an input of 32 bytes or more gets the same return code as every
\* input of the same length that differs from it in the message_type,
\* sequence_counter, timestamp, crc32 or reserved bytes only; a header whose
\* checked fields are right is accepted with message type 0x1234 and with
\* any crc32.
DecodeIgnoresCarriedFields ==
    (k_pc = "input_decoded" /\ k_capacity >= 32) =>
       /\ \A h \in CarriedVariants :
             telemetry_decode_header_v1(StaleHeader,
                                        WithCarriedBytesOf(k_buffer, h),
                                        k_capacity, k_null).rc = k_rc
       /\ (/\ InputHeaderAccepted
           /\ FieldBytes(k_buffer, 20, 4) = <<0, 0, 0, 0>>) => k_rc = 0

\* a header with message type 0x1234 and a crc32 that is no checksum of
\* anything has been accepted
UnknownTypeAcceptedWitness ==
    /\ k_pc = "input_decoded"
    /\ k_capacity = 32
    /\ k_null = {}
    /\ FieldBytes(k_buffer, 6, 2) = <<18, 52>>
    /\ FieldBytes(k_buffer, 24, 4) = <<202, 254, 186, 190>>
    /\ FieldBytes(k_buffer, 28, 4) = <<0, 0, 0, 5>>
    /\ k_rc = TELEM_RC_OK

\* the nine fields as the bytes of the input give them
FieldsOnTheWire ==
    [magic_value            |-> FieldBytes(k_buffer, 0, 4),
     protocol_version       |-> k_buffer[4],
     header_length          |-> k_buffer[5],
     message_type           |-> FieldBytes(k_buffer, 6, 2),
     sequence_counter       |-> FieldBytes(k_buffer, 8, 4),
     timestamp_monotonic_ns |-> FieldBytes(k_buffer, 12, 8),
     payload_len            |-> FieldBytes(k_buffer, 20, 4),
     crc32                  |-> FieldBytes(k_buffer, 24, 4),
     reserved               |-> FieldBytes(k_buffer, 28, 4)]

----------------------------------------------------------------------------
(* agent/telemetry_agent.c: telemetry_agent_start, and telemetry_agent_stop *)
(* called with NULL or a second time with the handle of a stopped agent.    *)
(*                                                                          *)
(* A load or store through a null or dangling pointer is undefined: the     *)
(* process is terminated by a fault, or the access goes through and finds   *)
(* whatever the memory holds.                                               *)

\* telemetry_agent_start: out_agent == NULL || ring_handle == NULL ||
\* transport->send_event == NULL, evaluated left to right; transport itself
\* is not tested, so with transport NULL the third operand loads through a
\* null pointer.  nulls is the set of the arguments that are NULL
\* ("send_event": the member of a non-null transport).
StartArgumentsCheck(nulls) ==
    IF "out_agent" \in nulls \/ "ring_handle" \in nulls
    THEN {"false"}
    ELSE IF "transport" \in nulls
    THEN {"fault", "false", "proceed"}
    ELSE IF "send_event" \in nulls
    THEN {"false"}
    ELSE {"proceed"}

\* telemetry_agent_start: the argument checks
StartCheck ==
    /\ a_pc = "call"
    /\ \E outcome \in StartArgumentsCheck(a_nulls) :
          /\ crashed' = (outcome = "fault")
          /\ a_pc' = CASE outcome = "fault"   -> "fault"
                       [] outcome = "false"   -> "returned"
                       [] outcome = "proceed" -> "alloc"
    /\ a_ret' = FALSE
    /\ UNCHANGED <<ringVars, prodVars, consVars, agentVars, histVars,
                   prod2Vars, obsVars, codecVars, wakeVars, initVars,
                   makeVars, a_nulls, a_rc,
                   out_agent_written, workers, thread_alive, wakeups_created,
                   s2_pc, freed_stores, null_stops>>

\* telemetry_agent_start: calloc of the agent, the handles, atomic_init of
\* stop_requested, sent_count and wakeup_count
StartAllocAgent ==
    /\ a_pc = "alloc"
    /\ \E allocated \in BOOLEAN :
          IF allocated
          THEN /\ agent_alive' = TRUE
               /\ stop_requested' = FALSE
               /\ sent_count' = 0
               /\ wakeup_count' = 0
               /\ a_pc' = "create_wakeup"
          ELSE /\ a_pc' = "returned"
               /\ UNCHANGED <<agent_alive, stop_requested, sent_count,
                              wakeup_count>>
    /\ a_ret' = FALSE
    /\ UNCHANGED <<ringVars, prodVars, consVars, event_fd, s_pc, thread_joined,
                   wakeup_alive, shutdown_calls, histVars, prod2Vars, obsVars,
                   codecVars, wakeVars, initVars, makeVars, a_nulls, a_rc,
                   out_agent_written,
                   workers, thread_alive, wakeups_created, crashed, s2_pc,
                   freed_stores, null_stops>>

\* telemetry_agent_start: agent->wakeup = osal_wakeup_create() (calloc and
\* eventfd(0, EFD_CLOEXEC), either may fail); NULL: free(agent), return false
StartCreateWakeup ==
    /\ a_pc = "create_wakeup"
    /\ \E created \in BOOLEAN :
          IF created
          THEN /\ wakeup_alive' = TRUE
               /\ event_fd' = 0
               /\ wakeups_created' = wakeups_created + 1
               /\ a_pc' = "create_thread"
               /\ UNCHANGED agent_alive
          ELSE /\ agent_alive' = FALSE
               /\ a_pc' = "returned"
               /\ UNCHANGED <<wakeup_alive, event_fd, wakeups_created>>
    /\ a_ret' = FALSE
    /\ UNCHANGED <<ringVars, prodVars, consVars, stop_requested, sent_count,
                   wakeup_count, s_pc, thread_joined, shutdown_calls, histVars,
                   prod2Vars, obsVars, codecVars, wakeVars, initVars,
                   makeVars, a_nulls, a_rc,
                   out_agent_written, workers, thread_alive, crashed, s2_pc,
                   freed_stores, null_stops>>

\* the values osal_thread_create returns: 0, -2 (calloc of the thread object
\* failed), -3 (pthread_create failed and the thread object was freed)
ThreadCreateResults ==
    {0, 0 - 2, 0 - 3}

\* telemetry_agent_start: rc = osal_thread_create(&agent->consumer_thread,
\* consumer_thread_main, agent, "telemetry_agent"); on 0 the worker runs
\* consumer_thread_main from here on and *out_thread is the thread object
StartCreateThread ==
    /\ a_pc = "create_thread"
    /\ \E result \in ThreadCreateResults :
          /\ a_rc' = result
          /\ IF result = 0
             THEN /\ thread_alive' = TRUE
                  /\ workers' = workers + 1
                  /\ c_pc' = "wait"
             ELSE UNCHANGED <<thread_alive, workers, c_pc>>
    /\ a_pc' = "check_thread"
    /\ UNCHANGED <<ringVars, prodVars, c_head, c_tail, c_out, c_ret, drained,
                   pass, agentVars, histVars, prod2Vars, obsVars, codecVars,
                   wakeVars, initVars, makeVars, a_nulls, a_ret,
                   out_agent_written,
                   wakeups_created, crashed, s2_pc, freed_stores, null_stops>>

\* faulty variant: a failed thread creation returns without the cleanup
StartCheckThreadLeaking ==
    /\ a_pc = "check_thread"
    /\ IF a_rc # 0 \/ ~thread_alive
       THEN /\ a_ret' = FALSE
            /\ UNCHANGED <<wakeup_alive, agent_alive, out_agent_written, s_pc>>
       ELSE /\ out_agent_written' = TRUE
            /\ a_ret' = TRUE
            /\ s_pc' = IF "transport" \in a_nulls THEN "none" ELSE "idle"
            /\ UNCHANGED <<wakeup_alive, agent_alive>>
    /\ a_pc' = "returned"
    /\ UNCHANGED <<ringVars, prodVars, consVars, stop_requested, sent_count,
                   wakeup_count, event_fd, thread_joined, shutdown_calls,
                   histVars, prod2Vars, obsVars, codecVars, wakeVars,
                   initVars, makeVars, a_nulls,
                   a_rc, workers, thread_alive, wakeups_created, crashed,
                   s2_pc, freed_stores, null_stops>>

\* telemetry_agent_start: rc != 0 || agent->consumer_thread == NULL:
\* osal_wakeup_destroy, free(agent), return false; otherwise
\* *out_agent = agent, return true.  A caller that got a handle goes on to
\* stop the agent (s_pc "idle"); the run of a caller whose transport was NULL
\* is not followed further.
StartCheckThread ==
    /\ a_pc = "check_thread"
    /\ IF a_rc # 0 \/ ~thread_alive
       THEN /\ wakeup_alive' = FALSE
            /\ agent_alive' = FALSE
            /\ a_ret' = FALSE
            /\ UNCHANGED <<out_agent_written, s_pc>>
       ELSE /\ out_agent_written' = TRUE
            /\ a_ret' = TRUE
            /\ s_pc' = IF "transport" \in a_nulls THEN "none" ELSE "idle"
            /\ UNCHANGED <<wakeup_alive, agent_alive>>
    /\ a_pc' = "returned"
    /\ UNCHANGED <<ringVars, prodVars, consVars, stop_requested, sent_count,
                   wakeup_count, event_fd, thread_joined, shutdown_calls,
                   histVars, prod2Vars, obsVars, codecVars, wakeVars,
                   initVars, makeVars, a_nulls,
                   a_rc, workers, thread_alive, wakeups_created, crashed,
                   s2_pc, freed_stores, null_stops>>

\* telemetry_agent_stop(NULL): agent == NULL, return
StopNull ==
    /\ ~crashed
    /\ a_pc \in {"call", "returned"}
    /\ null_stops = 0
    /\ null_stops' = null_stops + 1
    /\ UNCHANGED <<ringVars, prodVars, consVars, agentVars, histVars,
                   prod2Vars, obsVars, codecVars, wakeVars, initVars,
                   makeVars, a_pc, a_nulls,
                   a_rc, a_ret, out_agent_written, workers, thread_alive,
                   wakeups_created, crashed, s2_pc, freed_stores>>

\* what an access to the freed agent may do
FreedAccess ==
    {"fault", "through"}

\* telemetry_agent_stop on the handle of a stopped agent (the first call has
\* freed the agent; the handle is passed by value and is not NULL):
\* atomic_store(&agent->stop_requested, true) stores into freed memory
Stop2SetFlag ==
    /\ s_pc = "returned"
    /\ s2_pc = "none"
    /\ \E outcome \in FreedAccess :
          IF outcome = "fault"
          THEN /\ crashed' = TRUE
               /\ s2_pc' = "fault"
               /\ UNCHANGED freed_stores
          ELSE /\ freed_stores' = freed_stores + 1
               /\ s2_pc' = "stop_notify"
               /\ UNCHANGED crashed
    /\ UNCHANGED <<ringVars, prodVars, consVars, agentVars, histVars,
                   prod2Vars, obsVars, codecVars, wakeVars, initVars,
                   makeVars, a_pc, a_nulls,
                   a_rc, a_ret, out_agent_written, workers, thread_alive,
                   wakeups_created, null_stops>>

\* what a pointer member read from the freed agent may be: the NULL the first
\* call stored, or whatever the allocator has put there since
FreedPointer ==
    {"null", "garbage"}

\* the second call: osal_wakeup_notify(agent->wakeup),
\* osal_thread_join(agent->consumer_thread), osal_thread_destroy,
\* agent->consumer_thread = NULL, osal_wakeup_destroy, agent->wakeup = NULL.
\* With NULL members each callee returns at once; otherwise a pointer that
\* points nowhere is dereferenced.
Stop2Handles ==
    /\ s2_pc = "stop_notify"
    /\ \E member \in FreedPointer :
          IF member = "garbage"
          THEN /\ crashed' = TRUE
               /\ s2_pc' = "fault"
               /\ UNCHANGED freed_stores
          ELSE /\ freed_stores' = freed_stores + 2
               /\ s2_pc' = "stop_shutdown"
               /\ UNCHANGED crashed
    /\ UNCHANGED <<ringVars, prodVars, consVars, agentVars, histVars,
                   prod2Vars, obsVars, codecVars, wakeVars, initVars,
                   makeVars, a_pc, a_nulls,
                   a_rc, a_ret, out_agent_written, workers, thread_alive,
                   wakeups_created, null_stops>>

\* what agent->transport read from the freed agent may be: the caller's
\* transport, as the first call left it, or whatever is there now
FreedTransport ==
    {"stale", "garbage"}

\* the second call: if(agent->transport->shutdown) shutdown(context)
Stop2Shutdown ==
    /\ s2_pc = "stop_shutdown"
    /\ \E member \in FreedTransport :
          IF member = "garbage"
          THEN /\ crashed' = TRUE
               /\ s2_pc' = "fault"
               /\ UNCHANGED shutdown_calls
          ELSE /\ shutdown_calls' = shutdown_calls + 1
               /\ s2_pc' = "stop_free"
               /\ UNCHANGED crashed
    /\ UNCHANGED <<ringVars, prodVars, consVars, stop_requested, sent_count,
                   wakeup_count, event_fd, s_pc, thread_joined, wakeup_alive,
                   agent_alive, histVars, prod2Vars, obsVars, codecVars,
                   wakeVars, initVars, makeVars, a_pc, a_nulls, a_rc, a_ret,
                   out_agent_written,
                   workers, thread_alive, wakeups_created, freed_stores,
                   null_stops>>

\* the second call: free(agent) of a block that is already free: the
\* allocator aborts the process or links the block a second time
Stop2Free ==
    /\ s2_pc = "stop_free"
    /\ \E outcome \in FreedAccess :
          IF outcome = "fault"
          THEN /\ crashed' = TRUE
               /\ s2_pc' = "fault"
               /\ UNCHANGED freed_stores
          ELSE /\ freed_stores' = freed_stores + 1
               /\ s2_pc' = "returned"
               /\ UNCHANGED crashed
    /\ UNCHANGED <<ringVars, prodVars, consVars, agentVars, histVars,
                   prod2Vars, obsVars, codecVars, wakeVars, initVars,
                   makeVars, a_pc, a_nulls,
                   a_rc, a_ret, out_agent_written, workers, thread_alive,
                   wakeups_created, null_stops>>

\* the pointer arguments of telemetry_agent_start that may be NULL
StartArguments ==
    {"out_agent", "ring_handle", "transport", "send_event"}

\* the records in the ring when telemetry_agent_start is called
LifeBacklogs ==
    {0, 1}

\* before telemetry_agent_start: a ring, possibly with a record in it, no
\* agent, no worker
InitLife ==
    /\ \E b \in LifeBacklogs : RingWithBacklog(1, b)
    /\ ThreadsInit("none")
    /\ NoAgent
    /\ NoSecondProducer /\ NoObserver /\ NoCodec
    /\ a_pc = "call"
    /\ a_nulls \in SUBSET StartArguments
    /\ a_rc = 0 /\ a_ret = FALSE
    /\ out_agent_written = FALSE /\ workers = 0 /\ thread_alive = FALSE
    /\ wakeups_created = 0 /\ crashed = FALSE
    /\ s2_pc = "none" /\ freed_stores = 0 /\ null_stops = 0
    /\ NoRingInit /\ NoEventMake

StartNext ==
    \/ StartCheck
    \/ StartAllocAgent
    \/ StartCreateWakeup
    \/ StartCreateThread
    \/ StartCheckThread

Stop2Next ==
    \/ Stop2SetFlag
    \/ Stop2Handles
    \/ Stop2Shutdown
    \/ Stop2Free

\* a fault terminates the process; it happens only where no other thread
\* of the run has a step left
NextLife ==
    \/ StartNext
    \/ WorkerNext
    \/ StopNext
    \/ StopNull
    \/ Stop2Next

SpecLife == InitLife /\ [][NextLife]_vars

----------------------------------------------------------------------------
(* Properties of start and stop, checked under SpecLife *)

\* telemetry_agent_start has been called and is not running any more
StartOver ==
    a_pc \in {"returned", "fault"}

\* C23 (as stated): called with out_agent, ring_handle or transport NULL, or
\* with a transport whose send_event is NULL, telemetry_agent_start returns
\* false, spawns no worker, creates no wakeup primitive and does not write
\* *out_agent; when it returns true there is exactly one worker, created
\* with the stop flag false and both counters 0.
StartRejectsInvalid ==
    /\ (a_pc # "call" /\ a_nulls # {}) =>
          /\ a_pc = "returned"
          /\ a_ret = FALSE
          /\ workers = 0
          /\ wakeups_created = 0
          /\ ~out_agent_written
    /\ (a_pc = "returned" /\ a_ret) =>
          /\ workers = 1
          /\ out_agent_written
          /\ s_pc = "idle" => (~stop_requested /\ sent_count = 0
                                  /\ wakeup_count = 0)

\* C24: with valid arguments, when telemetry_agent_start has returned false
\* (the agent, the wakeup primitive or the thread could not be created),
\* the agent memory is freed, the wakeup primitive is destroyed if it was
\* created, there is no thread object and no worker, *out_agent is not
\* written and the sink's shutdown has not been called.
StartFailureReleases ==
    (a_pc = "returned" /\ ~a_ret /\ a_nulls = {}) =>
       /\ ~agent_alive
       /\ ~wakeup_alive
       /\ ~thread_alive
       /\ workers = 0
       /\ c_pc = "none"
       /\ ~out_agent_written
       /\ s_pc = "none"
       /\ shutdown_calls = 0

\* pthread_create has failed after the wakeup primitive was created, and
\* start has returned
ThreadCreationFailedWitness ==
    /\ a_pc = "returned"
    /\ a_nulls = {}
    /\ a_rc = 0 - 3
    /\ wakeups_created = 1
    /\ ~a_ret

\* C25 (as stated): telemetry_agent_stop with NULL does nothing, and a
\* second call with the handle of a stopped agent has no effect: no fault,
\* no store into the released agent, no second call of the sink's shutdown.
SecondStopNoEffect ==
    /\ (null_stops > 0 /\ a_pc = "call") => (~agent_alive /\ s_pc = "none")
    /\ s2_pc # "none" =>
          /\ ~crashed
          /\ freed_stores = 0
          /\ shutdown_calls = 1

----------------------------------------------------------------------------
(* core/ring_buffer.c: ring_buffer_init, followed by pushes and no pop.     *)

\* rb->allocation = capacity + 1, in size_t
allocation_of(capacity_) ==
    (capacity_ + 1) % (SIZE_MAX + 1)

\* ring_buffer_init(out_rb, capacity).  calloc may return NULL; a request
\* for zero slots returns NULL or a pointer to no storage.
ring_buffer_init ==
    /\ i_pc = "call"
    /\ \E rb_allocated, buffer_allocated \in BOOLEAN :
          IF "out_rb" \in i_nulls \/ i_capacity = 0
                \/ ~rb_allocated \/ ~buffer_allocated
          THEN /\ i_ret' = FALSE
               /\ UNCHANGED <<ringVars, out_rb_written>>
          ELSE /\ capacity' = i_capacity
               /\ allocation' = allocation_of(i_capacity)
               /\ buffer' = [i \in 0..(allocation_of(i_capacity) - 1)
                               |-> ZeroEvent]
               /\ head' = 0
               /\ tail' = 0
               /\ dropped' = 0
               /\ out_rb_written' = TRUE
               /\ i_ret' = TRUE
    /\ i_pc' = "returned"
    /\ UNCHANGED <<prodVars, consVars, agentVars, histVars, prod2Vars,
                   obsVars, codecVars, lifeVars, wakeVars, makeVars, i_nulls,
                   i_capacity>>

\* a caller pushes until one push after the first rejected one
MaxInitPush ==
    SIZE_MAX + 1

\* before ring_buffer_init: no ring
InitNoRing ==
    /\ capacity = 0 /\ allocation = 0 /\ buffer = << >>
    /\ head = 0 /\ tail = 0 /\ dropped = 0
    /\ backlog0 = 0 /\ attempts = 0 /\ pushed = << >>
    /\ ThreadsInit("none")
    /\ NoAgent
    /\ NoSecondProducer /\ NoObserver /\ NoCodec /\ NoLifecycle
    /\ NoEventMake
    /\ i_pc = "call"
    /\ i_nulls \in SUBSET {"out_rb"}
    /\ i_capacity \in 0..SIZE_MAX
    /\ i_ret = FALSE
    /\ out_rb_written = FALSE

NextInit ==
    \/ ring_buffer_init
    \/ i_ret /\ PushLoadHead(MaxInitPush)
    \/ PushLoadTail
    \/ PushDrop
    \/ PushCopyBegin
    \/ PushCopyEnd
    \/ PushStoreHead

SpecInit == InitNoRing /\ [][NextInit]_vars

----------------------------------------------------------------------------
(* Properties of ring_buffer_init, checked under SpecInit *)

\* the pushes that have returned
PushesReturned ==
    IF p_pc = "idle" THEN attempts ELSE attempts - 1

\* C26 (as stated): ring_buffer_init returns false and writes no handle
\* when capacity is 0 or out_rb is NULL; when it returns true the ring has
\* count 0 and dropped 0 before the first push and, with no pop, exactly the
\* first `capacity` pushes return true and every later one returns false.
InitHoldsCapacity ==
    /\ (i_pc = "returned" /\ (i_capacity = 0 \/ "out_rb" \in i_nulls))
          => (~i_ret /\ ~out_rb_written)
    /\ ~i_ret => ~out_rb_written
    /\ (i_ret /\ attempts = 0)
          => (ring_buffer_count(head, tail, allocation) = 0 /\ dropped = 0)
    /\ i_ret =>
          /\ Len(pushed) = IF PushesReturned < i_capacity
                           THEN PushesReturned ELSE i_capacity
          /\ rejected = {k \in 1..PushesReturned : k > i_capacity}
          /\ \A k \in 1..Len(pushed) : pushed[k].event_id = k

----------------------------------------------------------------------------
(* core/event.c: telemetry_event_make.                                      *)

\* (uint16_t) payload_size
to_uint16(n) ==
    n % 65536

\* the byte the caller's payload holds at every offset
PayloadByte ==
    170

\* faulty variant: a payload that is too large is cut to the maximum
event_make_truncating(event, event_id, payload_size, level, nulls, now) ==
    LET size == IF payload_size > TELEMETRY_EVENT_PAYLOAD_MAX
                THEN TELEMETRY_EVENT_PAYLOAD_MAX ELSE payload_size
        made == [event EXCEPT !.event_id = event_id,
                              !.level = level % 256,
                              !.reserved = 0,
                              !.payload_size = to_uint16(size),
                              !.timestamp = now]
    IN  IF "event" \in nulls
        THEN [ret |-> FALSE, event |-> event]
        ELSE IF size > 0 /\ "payload" \in nulls
        THEN [ret |-> FALSE, event |-> made]
        ELSE [ret   |-> TRUE,
              event |-> [made EXCEPT
                           !.payload = [i \in 1..size |-> PayloadByte]]]

\* telemetry_event_make(event, event_id, payload, payload_size, level): the
\* return value and the caller's event afterwards.  nulls is the set of the
\* pointer arguments that are NULL, now the value of the monotonic clock.
\* The fields are stored before the payload pointer is tested.
telemetry_event_make(event, event_id, payload_size, level, nulls, now) ==
    LET made == [event EXCEPT !.event_id = event_id,
                              !.level = level % 256,
                              !.reserved = 0,
                              !.payload_size = to_uint16(payload_size),
                              !.timestamp = now]
    IN  IF "event" \in nulls
        THEN [ret |-> FALSE, event |-> event]
        ELSE IF payload_size > TELEMETRY_EVENT_PAYLOAD_MAX
        THEN [ret |-> FALSE, event |-> event]
        ELSE IF payload_size > 0 /\ "payload" \in nulls
        THEN [ret |-> FALSE, event |-> made]
        ELSE [ret   |-> TRUE,
              event |-> [made EXCEPT
                           !.payload = [i \in 1..payload_size
                                           |-> PayloadByte]]]

\* payload sizes: none, one byte, at and around the maximum, and a size
\* whose low sixteen bits are 1
PayloadSizes ==
    {0, 1, TELEMETRY_EVENT_PAYLOAD_MAX - 1, TELEMETRY_EVENT_PAYLOAD_MAX,
     TELEMETRY_EVENT_PAYLOAD_MAX + 1, 65537}

\* TELEMETRY_LEVEL_DEBUG .. TELEMETRY_LEVEL_ERROR
TelemetryLevels ==
    0..3

\* the caller's event before the call: what an earlier use left in it
StaleEvent ==
    [event_id |-> 99, level |-> 9, reserved |-> 9, payload_size |-> 200,
     timestamp |-> 1, payload |-> <<1, 2, 3>>]

InitMake ==
    /\ RingInit(1)
    /\ backlog0 = 0 /\ attempts = 0 /\ pushed = << >>
    /\ ThreadsInit("none")
    /\ NoAgent
    /\ NoSecondProducer /\ NoObserver /\ NoCodec /\ NoLifecycle /\ NoRingInit
    /\ m_pc = "call"
    /\ m_args \in [event_id     : {0, 7},
                   payload_size : PayloadSizes,
                   level        : TelemetryLevels,
                   nulls        : SUBSET {"event", "payload"}]
    /\ m_event = StaleEvent
    /\ m_ret = FALSE

\* ok = telemetry_event_make(&event, event_id, payload, payload_size, level)
EventMake ==
    /\ m_pc = "call"
    /\ \E now \in {1000, 2000} :
          LET r == telemetry_event_make(m_event, m_args.event_id,
                                        m_args.payload_size, m_args.level,
                                        m_args.nulls, now)
          IN  /\ m_ret' = r.ret
              /\ m_event' = r.event
    /\ m_pc' = "returned"
    /\ UNCHANGED <<ringVars, prodVars, consVars, agentVars, histVars,
                   prod2Vars, obsVars, codecVars, lifeVars, wakeVars,
                   initVars, m_args>>

NextMake ==
    EventMake

SpecMake == InitMake /\ [][NextMake]_vars

----------------------------------------------------------------------------
(* Properties of telemetry_event_make, checked under SpecMake *)

\* C27: telemetry_event_make fails rather than truncates: it returns false
\* when payload_size is above 128, when event is NULL, or when payload is
\* NULL and payload_size is not 0; when it returns true the event's
\* payload_size is the requested size, at most 128, reserved is 0, and
\* event_id and level are the arguments.
EventMakeFailsRatherThanTruncates ==
    m_pc = "returned" =>
       /\ (m_args.payload_size > 128
             \/ "event" \in m_args.nulls
             \/ ("payload" \in m_args.nulls /\ m_args.payload_size # 0))
             => ~m_ret
       /\ m_ret =>
             /\ m_event.payload_size = m_args.payload_size
             /\ m_event.payload_size <= 128
             /\ m_event.reserved = 0
             /\ m_event.event_id = m_args.event_id
             /\ m_event.level = m_args.level

\* a payload of 129 bytes, offered with non-null pointers, has been refused
OversizedPayloadWitness ==
    /\ m_pc = "returned"
    /\ m_args.payload_size = 129
    /\ m_args.nulls = {}
    /\ ~m_ret

====
